---- MODULE Spec2Model ----
(***************************************************************************)
(* A model of anom-py: the caching adapter's invalidation protocol, the    *)
(* transactional decorator with its per-adapter transaction stacks, and    *)
(* the batch entry points get_multi / put_multi / delete_multi.            *)
(*                                                                         *)
(* The module holds several specifications over one set of variables:      *)
(*   SpecCache  threads racing non-transactional put/delete/get calls on   *)
(*              one key through MemcacheAdapter;                           *)
(*   SpecTxn    one thread running a tree of transactional functions;      *)
(*   SpecBatch  one thread calling the batch entry points of model.py.     *)
(* The specifications that follow them model the library one part at a     *)
(* time: keys, the model registry, entities, queries, properties,          *)
(* namespaces, adapters and the DateTime property; SpecCacheCalls and      *)
(* SpecCacheFair are SpecCache with a bounded number of calls.             *)
(* A specification leaves the variables of the others at their initial     *)
(* values.                                                                 *)
(*                                                                         *)
(* External collaborators are modelled by their contract: memcached is a   *)
(* map of items carrying a cas-unique number (gets / add / cas / set /     *)
(* delete), the datastore is a map from keys to entity data.  Item and     *)
(* lock expiry (_item_timeout, _lock_timeout) and eviction are left out:   *)
(* every call is taken to finish well within the lock timeout.  Entity     *)
(* data is a positive integer (a version of the entity); NoEntity stands   *)
(* for None.                                                               *)
(***************************************************************************)
EXTENDS Integers, Sequences, FiniteSets, TLC

(***************************************************************************)
(* Bounds.                                                                 *)
(***************************************************************************)
NumWriters == 2
NumReaders == 2
NumKeys == 2

Writers == 1..NumWriters
Readers == (NumWriters + 1)..(NumWriters + NumReaders)
Procs == Writers \cup Readers
Keys == 1..NumKeys

\* The key all threads of SpecCache contend on.
K == 1

\* None, as returned by the adapters for an entity that does not exist.
NoEntity == 0
\* The entity stored before the race starts.
InitialEntity == 1

VARIABLES
    store,      \* datastore: key -> entity data or NoEntity
    cache,      \* memcached: key -> item
    casUnique,  \* memcached's counter of cas-unique numbers
    pc,         \* SpecCache: thread -> position in its call
    rlocal,     \* SpecCache: reader -> locals of get_multi / _cache
    hist,       \* SpecCache: reader -> what the claims observe about its call
    layered,    \* SpecTxn: the adapter is a MemcacheAdapter around a DatastoreAdapter
    frames,     \* SpecTxn: the thread's stack of calls of transactional functions
    dsStack,    \* SpecTxn: DatastoreAdapter._transactions of the thread
    mcStack,    \* SpecTxn: MemcacheAdapter._transactions of the thread
    batches,    \* SpecTxn: the datastore client's stack of open batches
    committed,  \* SpecTxn: the attempts whose writes reached the store
    failed,     \* SpecTxn: calls that raised, with the attempt that called them
    budget,     \* SpecTxn: attempts begun and writes issued so far
    call,       \* SpecBatch: the last call of a batch entry point
    keyst,      \* SpecKey: the Key built last and what was observed of it
    registry,   \* SpecRegistry: _known_models and the last class definition
    ent,        \* SpecEntity: a model entity and what was observed of it
    query,      \* SpecQuery: the stored entities and the run of a query
    propcall,   \* SpecProperty: the last call of a method of a property
    dtst,       \* SpecDateTime: an entity with a DateTime property, and the clock
    nsst,       \* SpecNamespace: the default and the thread-local namespaces
    adst        \* SpecAdapters: the global adapter and the adapters' transactions

cacheVars == <<pc, rlocal, hist>>
txnVars == <<layered, frames, dsStack, mcStack, batches, committed, failed, budget>>
batchVars == <<call>>
libVars == <<propcall, dtst, nsst, adst>>
modelVars == <<keyst, registry, ent, query, libVars>>
restVars == <<batchVars, modelVars>>
adapterVars == <<store, cache, casUnique, cacheVars, txnVars, batchVars>>
vars == <<adapterVars, modelVars>>

(***************************************************************************)
(* memcached items.  An absent item has kind "none".                       *)
(***************************************************************************)
NoItem == [kind |-> "none", v |-> 0, cas |-> 0]

\* MemcacheAdapter._lock_value: _lock_prefix followed by a fresh uuid4; the
\* uuid is modelled by the identity of the call that drew it.
LockValue(owner) == [kind |-> "lock", v |-> owner]

\* value.startswith(self._lock_prefix)
IsLock(value) == value.kind = "lock"

\* Msgpack._dumps / Msgpack._loads on entity data.  Integers pack to a
\* msgpack int and unpack to the same integer.
Dumps(entity) == [kind |-> "data", v |-> entity]
Loads(data) == data.v

ValueOf(item) == [kind |-> item.kind, v |-> item.v]

\* client.set_multi: stores unconditionally, the item gets a new cas-unique.
McSet(item, value, unique) == [kind |-> value.kind, v |-> value.v, cas |-> unique]

\* An add that never stores.
McAdd_Never(item, value, unique) == item

\* client.add: stores only when the key holds no item.
McAdd(item, value, unique) ==
    IF item.kind = "none" THEN McSet(item, value, unique) ELSE item

\* A cas that ignores the cas-unique of the item.
McCas_Always(item, value, cid, unique) ==
    IF item.kind # "none" THEN McSet(item, value, unique) ELSE item

\* client.cas: stores only when the item still carries the cas-unique that
\* gets returned; a vanished item raises NotFound (nothing is stored).
McCas(item, value, cid, unique) ==
    IF item.kind # "none" /\ item.cas = cid THEN McSet(item, value, unique) ELSE item

\* A delete that leaves the item in place.
McDelete_Keep(item) == item

\* client.delete_multi
McDelete(item) == NoItem

(***************************************************************************)
(* SpecCache: MemcacheAdapter outside transactions, one contended key.     *)
(* Every action is one call to memcached or to the backing adapter; the    *)
(* threads interleave between calls.  A writer thread makes one put_multi  *)
(* or delete_multi call, a reader thread one get_multi call.               *)
(***************************************************************************)
\* The entity writer w puts: the stored entity with a changed field.
PutEntity(w) == InitialEntity + w

\* get_multi: `data is None or data.startswith(self._lock_prefix)` sends the
\* key to the backing adapter; anything else is served from the cache.
CacheHit(item) == item.kind # "none" /\ ~IsLock(ValueOf(item))

\* _cache: `value and value.startswith(self._lock_prefix) and value !=
\* current_lock`: somebody else's lock, the write is abandoned.
ForeignLock(item, owner) ==
    item.kind # "none" /\ IsLock(ValueOf(item)) /\ ValueOf(item) # LockValue(owner)

Returned == {"done", "failed"}
InFlight(p) == pc[p] \notin ({"idle"} \cup Returned)

\* Threads are interchangeable: the writers, and the readers, are numbered in
\* the order in which their calls start.
NextToStart(p, group) == \A q \in group : q < p => pc[q] # "idle"

\* A put_multi or delete_multi is between its set_multi and its delete_multi.
WriteInFlight == \E w \in Writers : pc[w] \in {"locked", "written", "raised"}

NoLocals == [data |-> NoEntity, cid |-> 0, result |-> NoEntity]
\* The put_multi and delete_multi calls that have run their delete_multi.
Deletes == Cardinality({w \in Writers : pc[w] \in Returned})

\* gets counts the client.gets calls of the reader's _cache, deletesBefore
\* the deletes that preceded the first of them, outcome tells how _cache
\* returned.
NoHist == [afterOneWrite |-> FALSE, staleHit |-> FALSE,
           gets |-> 0, deletesBefore |-> 0, outcome |-> ""]

\* What the claims observe when a get_multi starts: whether it starts after
\* exactly one write and every other call so far have returned.
StartHist(r, stale) ==
    [afterOneWrite |-> /\ \A p \in Procs \ {r} : ~InFlight(p)
                       /\ Cardinality({w \in Writers : pc[w] \in Returned}) = 1,
     staleHit |-> stale,
     gets |-> 0, deletesBefore |-> 0, outcome |-> ""]

\* A call that starts while a get_multi is in flight runs concurrently with it.
Disturb(h) ==
    [r \in Readers |-> IF InFlight(r) THEN [h[r] EXCEPT !.afterOneWrite = FALSE] ELSE h[r]]

\* The variables of SpecTxn before any transactional function is called.
TxnIdle ==
    /\ frames = <<>>
    /\ dsStack = <<>>
    /\ mcStack = <<>>
    /\ batches = <<>>
    /\ committed = {}
    /\ failed = {}
    /\ budget = [attempts |-> 0, writes |-> 0, keys |-> 0]

\* No batch entry point has been called.
NoCall ==
    [op |-> "none", keys |-> <<>>, raiseAt |-> 0, invalidAt |-> 0, result |-> <<>>,
     raised |-> FALSE, adapterCalls |-> 0, storeBefore |-> <<>>, n |-> 0,
     pc |-> "done", returns |-> "", missing |-> <<>>, ds_results |-> <<>>,
     i |-> 0, cid |-> 0]

\* No property method, namespace function or adapter has been called.
LibIdle ==
    /\ propcall = <<>>
    /\ dtst = <<>>
    /\ nsst = <<>>
    /\ adst = <<>>

\* No key, model class, entity or query has been built.
ModelIdle ==
    /\ keyst = <<>>
    /\ registry = <<>>
    /\ ent = <<>>
    /\ query = <<>>
    /\ LibIdle

\* The variables of SpecCache and SpecBatch before any call is made.
CacheIdle ==
    /\ casUnique = 1
    /\ pc = [p \in Procs |-> "idle"]
    /\ rlocal = [r \in Readers |-> NoLocals]
    /\ hist = [r \in Readers |-> NoHist]
    /\ call = NoCall

\* The adapters before any call, over an empty datastore and an empty cache.
AdapterIdle ==
    /\ layered = TRUE
    /\ TxnIdle
    /\ CacheIdle
    /\ store = [k \in Keys |-> NoEntity]
    /\ cache = [k \in Keys |-> NoItem]

\* The entity is stored or not, and cached or not, as earlier calls left it.
InitCache ==
    /\ layered = TRUE
    /\ TxnIdle
    /\ CacheIdle
    /\ ModelIdle
    /\ \E e \in {NoEntity, InitialEntity} :
          /\ store = [k \in Keys |-> IF k = K THEN e ELSE NoEntity]
          /\ \E cached \in BOOLEAN :
                cache = [k \in Keys |->
                            IF k = K /\ cached /\ e # NoEntity
                            THEN McSet(NoItem, Dumps(e), 1)
                            ELSE NoItem]

\* _bust, before the yield: client.set_multi(memcache_pairs, _lock_timeout).
BustLock(w) ==
    /\ pc[w] = "idle"
    /\ NextToStart(w, Writers)
    /\ casUnique' = casUnique + 1
    /\ cache' = [cache EXCEPT ![K] = McSet(@, LockValue(w), casUnique')]
    /\ pc' = [pc EXCEPT ![w] = "locked"]
    /\ hist' = Disturb(hist)
    /\ UNCHANGED <<store, rlocal, txnVars, restVars>>

\* The body of the with block: self.adapter.put_multi(requests) or
\* self.adapter.delete_multi(keys), which writes or raises.
BackingWrite(w) ==
    /\ pc[w] = "locked"
    /\ \/ /\ \E entity \in {PutEntity(w), NoEntity} : store' = [store EXCEPT ![K] = entity]
          /\ pc' = [pc EXCEPT ![w] = "written"]
       \/ /\ pc' = [pc EXCEPT ![w] = "raised"]
          /\ UNCHANGED store
    /\ UNCHANGED <<cache, casUnique, rlocal, hist, txnVars, restVars>>

\* _bust, the finally clause: client.delete_multi(memcache_keys); then the
\* call returns, or the exception of the backing write leaves it.
BustDelete(w) ==
    /\ pc[w] \in {"written", "raised"}
    /\ cache' = [cache EXCEPT ![K] = McDelete(@)]
    /\ pc' = [pc EXCEPT ![w] = IF pc[w] = "raised" THEN "failed" ELSE "done"]
    /\ UNCHANGED <<store, casUnique, rlocal, hist, txnVars, restVars>>

\* get_multi: client.get_multi and the sorting into found and missing.
GetFromCache(r) ==
    /\ pc[r] = "idle"
    /\ NextToStart(r, Readers)
    /\ LET item == cache[K]
       IN IF CacheHit(item)
          THEN /\ rlocal' = [rlocal EXCEPT ![r].result = Loads(ValueOf(item))]
               /\ hist' = [Disturb(hist) EXCEPT ![r] =
                              StartHist(r, WriteInFlight /\ Loads(ValueOf(item)) # store[K])]
               /\ pc' = [pc EXCEPT ![r] = "done"]
          ELSE /\ hist' = [Disturb(hist) EXCEPT ![r] = StartHist(r, FALSE)]
               /\ pc' = [pc EXCEPT ![r] = "miss"]
               /\ UNCHANGED rlocal
    /\ UNCHANGED <<store, cache, casUnique, txnVars, restVars>>

\* get_multi: self.adapter.get_multi(missing); a missing entity is not cached.
GetFromStore(r) ==
    /\ pc[r] = "miss"
    /\ IF store[K] = NoEntity
       THEN /\ rlocal' = [rlocal EXCEPT ![r].result = NoEntity]
            /\ pc' = [pc EXCEPT ![r] = "done"]
       ELSE /\ rlocal' = [rlocal EXCEPT ![r].result = store[K], ![r].data = store[K]]
            /\ pc' = [pc EXCEPT ![r] = "gets"]
    /\ UNCHANGED <<store, cache, casUnique, hist, txnVars, restVars>>

\* _cache: client.gets(key) and the two tests that follow it.
CacheGets(r) ==
    /\ pc[r] = "gets"
    /\ LET item == cache[K]
       IN /\ IF ForeignLock(item, r)
             THEN /\ pc' = [pc EXCEPT ![r] = "done"]
                  /\ rlocal' = [rlocal EXCEPT ![r].data = NoEntity]
             ELSE IF item.kind = "none"
             THEN pc' = [pc EXCEPT ![r] = "add"] /\ UNCHANGED rlocal
             ELSE /\ pc' = [pc EXCEPT ![r] = "cas"]
                  /\ rlocal' = [rlocal EXCEPT ![r].cid = item.cas]
          /\ hist' = [hist EXCEPT
                ![r].gets = @ + 1,
                ![r].deletesBefore = IF hist[r].gets = 0 THEN Deletes ELSE @,
                ![r].outcome = IF ForeignLock(item, r) THEN "abandoned" ELSE @]
    /\ UNCHANGED <<store, cache, casUnique, txnVars, restVars>>

\* _cache: client.add(key, current_lock, _lock_timeout); continue.
CacheAdd(r) ==
    /\ pc[r] = "add"
    /\ casUnique' = IF cache[K].kind = "none" THEN casUnique + 1 ELSE casUnique
    /\ cache' = [cache EXCEPT ![K] = McAdd(@, LockValue(r), casUnique')]
    /\ pc' = [pc EXCEPT ![r] = "gets"]
    /\ UNCHANGED <<store, rlocal, hist, txnVars, restVars>>

\* _cache: return client.cas(key, data, cid, _item_timeout), NotFound swallowed.
CacheCas(r) ==
    /\ pc[r] = "cas"
    /\ casUnique' = IF McCas(cache[K], Dumps(rlocal[r].data), rlocal[r].cid, 0) # cache[K]
                    THEN casUnique + 1 ELSE casUnique
    /\ cache' = [cache EXCEPT ![K] = McCas(@, Dumps(rlocal[r].data), rlocal[r].cid, casUnique')]
    /\ pc' = [pc EXCEPT ![r] = "done"]
    /\ rlocal' = [rlocal EXCEPT ![r].data = NoEntity, ![r].cid = 0]
    /\ hist' = [hist EXCEPT ![r].outcome =
                    IF McCas(cache[K], Dumps(rlocal[r].data), rlocal[r].cid, 0) # cache[K]
                    THEN "stored"
                    ELSE IF ForeignLock(cache[K], r) THEN "lost to a lock"
                    ELSE "lost"]
    /\ UNCHANGED <<store, txnVars, restVars>>

NextCache ==
    \/ \E w \in Writers : BustLock(w) \/ BackingWrite(w) \/ BustDelete(w)
    \/ \E r \in Readers : GetFromCache(r) \/ GetFromStore(r) \/ CacheGets(r)
                             \/ CacheAdd(r) \/ CacheCas(r)

SpecCache == InitCache /\ [][NextCache]_vars

\* C1: after one put or delete raced by any number of gets, once every call
\* has returned, a get that runs alone returns what the backing store holds
\* (the put entity, or None after a delete).
C1_SubsequentGetReturnsStore ==
    \A r \in Readers :
        ( /\ pc[r] = "done"
          /\ hist[r].afterOneWrite
          /\ Cardinality({w \in Writers : pc[w] # "idle"}) = 1 )
        => rlocal[r].result = store[K]

\* C2: while a put_multi or delete_multi is between setting its lock and
\* deleting the cache entry, no get_multi is served a cached entity that
\* differs from what the backing store holds.
C2_NoStaleHitDuringWrite == \A r \in Readers : ~hist[r].staleHit

(***************************************************************************)
(* SpecTxn: one thread calling transactional functions.  A frame is one    *)
(* call of `inner` in transaction.py; the body of the decorated function   *)
(* is any sequence of writes through the adapter, calls of further         *)
(* transactional functions, and a final return or raise.                   *)
(***************************************************************************)
MaxAttempts == 2
MaxWrites == 2
MaxRetries == 1

\* The entity a transactional body puts.
UpdatedEntity == InitialEntity + 1

Propagations == {"Nested", "Independent"}

\* Exceptions are objects: origin is the attempt in which the object was
\* created, cause the origin of the exception stored in its cause attribute.
NoExc == [kind |-> "none", origin |-> 0, cause |-> 0]
TransactionFailed(aid) == [kind |-> "TransactionFailed", origin |-> aid, cause |-> 0]
RetriesExceeded(aid, cause) ==
    [kind |-> "RetriesExceeded", origin |-> aid, cause |-> cause.origin]
\* What the body of a decorated function may raise by itself: an Exception,
\* the conflict signal, or an exception that derives from BaseException only
\* (KeyboardInterrupt, SystemExit, GeneratorExit).
BodyRaises == {"RuntimeError", "TransactionFailed", "KeyboardInterrupt"}

\* A loop test that allows one attempt fewer.
MayAttempt_Strict(attempts, retries) == attempts < retries

\* inner: `while attempts <= retries`.
MayAttempt(attempts, retries) == attempts <= retries

\* inner: `except TransactionFailed` sends the attempt to `continue`, every
\* other Exception to rollback and re-raise.
Retryable(exc) == exc.kind = "TransactionFailed"

\* inner: what `except Exception` catches.  KeyboardInterrupt stands for the
\* exceptions that derive from BaseException and not from Exception.
IsException(exc) == exc.kind # "KeyboardInterrupt"

\* Raising a new exception of the same type in place of the caught one.
Reraised_Copy(exc) == [exc EXCEPT !.origin = 0]

\* inner: `raise e` in the except clause.
Reraised(exc) == exc

\* in_transaction: bool(self._transactions)
InTransaction(stack) == Len(stack) > 0

\* current_transaction: self._transactions[-1]
CurrentTransaction(stack) == stack[Len(stack)]

\* An Independent transaction that joins the open transaction as Nested does.
OpensOuter_Joining(prop, stack) == ~InTransaction(stack)

\* transaction(propagation): Independent always builds an outer transaction,
\* Nested builds one only when the stack is empty.
OpensOuter(prop, stack) == prop = "Independent" \/ ~InTransaction(stack)

\* transaction(propagation): the new object is appended to the stack; an
\* inner transaction keeps the current transaction as its parent.
PushTransaction(stack, prop, id) ==
    Append(stack, [id |-> id,
                   outer |-> OpensOuter(prop, stack),
                   parent |-> IF OpensOuter(prop, stack) THEN 0
                              ELSE CurrentTransaction(stack).id,
                   batch |-> {}])

\* An end() that leaves the transaction on the stack.
RemoveTransaction_Keep(stack, id) == stack

\* end(): self.adapter._transactions.remove(self)
RemoveTransaction(stack, id) == SelectSeq(stack, LAMBDA t : t.id # id)

Entry(stack, id) == CHOOSE t \in {stack[i] : i \in 1..Len(stack)} : t.id = id

\* _DatastoreInnerTransaction.__getattr__ / _MemcacheInnerTransaction.__getattr__:
\* an attribute an inner transaction lacks is looked up on its parent.
RECURSIVE OuterOf(_, _)
OuterOf(stack, id) ==
    IF Entry(stack, id).outer THEN id ELSE OuterOf(stack, Entry(stack, id).parent)

\* Keys recorded on the current transaction itself, inner or outer.
PushKeys_OnCurrent(stack, keys) ==
    [i \in 1..Len(stack) |->
        IF i = Len(stack) THEN [stack[i] EXCEPT !.batch = @ \cup keys] ELSE stack[i]]

\* _MemcacheOuterTransaction._push_keys, reached from current_transaction.
PushKeys(stack, keys) ==
    LET target == OuterOf(stack, CurrentTransaction(stack).id)
    IN [i \in 1..Len(stack) |->
           IF stack[i].id = target
           THEN [stack[i] EXCEPT !.batch = @ \cup keys]
           ELSE stack[i]]

\* _bust, before the yield: client.set_multi gives every key the lock value
\* of the call; memcached numbers the items it stores.
Locked(c, keys, owner, unique) ==
    [k \in Keys |->
        IF k \in keys
        THEN McSet(c[k], LockValue(owner), unique + Cardinality({j \in keys : j <= k}))
        ELSE c[k]]

\* _bust, the finally clause: client.delete_multi(memcache_keys).
Busted(c, keys) == [k \in Keys |-> IF k \in keys THEN McDelete(c[k]) ELSE c[k]]

\* The datastore client's put_multi / delete_multi: the mutation joins the
\* current batch; without one it is committed at once.
Mutation(k, op, aid) ==
    [key |-> k, entity |-> IF op = "put" THEN UpdatedEntity ELSE NoEntity, by |-> aid]

RECURSIVE Applied(_, _)
Applied(st, muts) ==
    IF muts = <<>> THEN st
    ELSE Applied([st EXCEPT ![Head(muts).key] = Head(muts).entity], Tail(muts))

Writers_(muts) == {muts[i].by : i \in 1..Len(muts)}

AddToBatch(bs, m) ==
    [i \in 1..Len(bs) |-> IF i = Len(bs) THEN [bs[i] EXCEPT !.muts = Append(@, m)] ELSE bs[i]]

BatchOf(bs, id) == CHOOSE b \in {bs[i] : i \in 1..Len(bs)} : b.id = id

\* The transaction objects on a stack, bottom first.
StackIds(stack) == [i \in 1..Len(stack) |-> stack[i].id]

FrameSet == {frames[i] : i \in 1..Len(frames)}
Top == frames[Len(frames)]
SetTop(f) == [frames EXCEPT ![Len(frames)] = f]

NewFrame(prop, retries, caller) ==
    [prop |-> prop, retries |-> retries, attempts |-> 0, pc |-> "loop",
     aid |-> 0, mine |-> {}, caller |-> caller,
     exc |-> NoExc, cause |-> NoExc, bodyExc |-> NoExc, after |-> "none",
     bg |-> 0, cm |-> 0, rb |-> 0, en |-> 0, conflicts |-> 0,
     outer |-> FALSE, wrote |-> FALSE, handled |-> FALSE,
     dsAtCall |-> StackIds(dsStack), mcAtCall |-> StackIds(mcStack), batchesAtCall |-> Len(batches)]

\* The except clauses of inner, applied to an exception leaving the body.
\* An exception neither clause catches goes through the finally clause and
\* leaves the call as it is.
Dispatch(f, exc) ==
    IF Retryable(exc)
    THEN [f EXCEPT !.bodyExc = exc, !.cause = exc, !.after = "retry", !.pc = "end"]
    ELSE IF IsException(exc)
    THEN [f EXCEPT !.bodyExc = exc, !.exc = Reraised(exc), !.pc = "rollback"]
    ELSE [f EXCEPT !.bodyExc = exc, !.exc = exc, !.after = "raise", !.pc = "end"]

\* The caching adapter over the datastore adapter, every entity stored and
\* cached, no call made yet.
InitTxn ==
    /\ layered = TRUE
    /\ TxnIdle
    /\ store = [k \in Keys |-> InitialEntity]
    /\ cache = [k \in Keys |-> IF layered THEN McSet(NoItem, Dumps(InitialEntity), 1) ELSE NoItem]
    /\ CacheIdle
    /\ ModelIdle

\* MemcacheAdapter.put_multi / delete_multi on one full key inside a
\* transaction, or the same call on a bare DatastoreAdapter.  (The calls
\* outside transactions are those of SpecCache and SpecBatch.)
AdapterWrite(k, op, aid) ==
    /\ InTransaction(dsStack)
    /\ IF layered /\ InTransaction(mcStack)
       THEN mcStack' = PushKeys(mcStack, {k}) /\ UNCHANGED cache
       ELSE UNCHANGED <<cache, mcStack>>
    /\ IF batches # <<>>
       THEN /\ batches' = AddToBatch(batches, Mutation(k, op, aid))
            /\ UNCHANGED <<store, committed>>
       ELSE /\ store' = Applied(store, <<Mutation(k, op, aid)>>)
            /\ committed' = committed \cup {aid}
            /\ UNCHANGED batches

\* A transactional function is called outside any transaction.
TxCallTop ==
    /\ frames = <<>>
    /\ budget.attempts = 0
    /\ \E prop \in Propagations, retries \in 0..MaxRetries :
          frames' = <<NewFrame(prop, retries, 0)>>
    /\ UNCHANGED <<store, cache, casUnique, cacheVars, restVars, layered, dsStack, mcStack,
                   batches, committed, failed, budget>>

\* inner: the loop test; then either attempts += 1 and
\* adapter.transaction(propagation), or raise RetriesExceeded(cause).
TxLoop ==
    /\ frames # <<>>
    /\ Top.pc = "loop"
    /\ IF MayAttempt(Top.attempts, Top.retries)
       THEN /\ budget.attempts < MaxAttempts
            /\ budget' = [budget EXCEPT !.attempts = @ + 1]
            /\ dsStack' = PushTransaction(dsStack, Top.prop, budget'.attempts)
            /\ mcStack' = IF layered
                          THEN PushTransaction(mcStack, Top.prop, budget'.attempts)
                          ELSE mcStack
            /\ frames' = SetTop([Top EXCEPT
                    !.attempts = @ + 1, !.aid = budget'.attempts,
                    !.mine = @ \cup {budget'.attempts}, !.pc = "begin",
                    !.outer = OpensOuter(Top.prop, dsStack),
                    !.bodyExc = NoExc, !.exc = NoExc, !.after = "none",
                    !.bg = 0, !.cm = 0, !.rb = 0, !.en = 0,
                    !.wrote = FALSE, !.handled = FALSE])
       ELSE /\ frames' = SetTop([Top EXCEPT
                    !.exc = RetriesExceeded(Top.aid, Top.cause), !.pc = "exit"])
            /\ UNCHANGED <<dsStack, mcStack, budget>>
    /\ UNCHANGED <<store, cache, casUnique, cacheVars, restVars, layered, batches, committed, failed>>

\* transaction.begin(): an outer transaction begins a datastore transaction
\* and pushes it on the client's batch stack; an inner one does nothing.
TxBegin ==
    /\ frames # <<>>
    /\ Top.pc = "begin"
    /\ batches' = IF Entry(dsStack, Top.aid).outer
                  THEN Append(batches, [id |-> Top.aid, muts |-> <<>>])
                  ELSE batches
    /\ frames' = SetTop([Top EXCEPT !.bg = @ + 1, !.pc = "body"])
    /\ UNCHANGED <<store, cache, casUnique, cacheVars, restVars, layered, dsStack, mcStack,
                   committed, failed, budget>>

\* The body calls put_multi or delete_multi.  Keys are interchangeable: they
\* are numbered in the order in which the run first writes them.
TxWrite ==
    /\ frames # <<>>
    /\ Top.pc = "body"
    /\ budget.writes < MaxWrites
    /\ \E k \in Keys, op \in {"put", "delete"} :
          /\ k <= budget.keys + 1
          /\ AdapterWrite(k, op, Top.aid)
          /\ budget' = [budget EXCEPT !.writes = @ + 1,
                                     !.keys = IF k > @ THEN k ELSE @]
    /\ frames' = SetTop([Top EXCEPT !.wrote = TRUE])
    /\ UNCHANGED <<casUnique, cacheVars, restVars, layered, dsStack, failed>>

\* The body calls another transactional function.  The functions of one run
\* are decorated with the same number of retries.
TxCall ==
    /\ frames # <<>>
    /\ Top.pc = "body"
    /\ budget.attempts < MaxAttempts
    /\ \E prop \in Propagations :
          frames' = Append(frames, NewFrame(prop, Top.retries, Top.aid))
    /\ UNCHANGED <<store, cache, casUnique, cacheVars, restVars, layered, dsStack, mcStack,
                   batches, committed, failed, budget>>

\* The body raises.
TxRaise ==
    /\ frames # <<>>
    /\ Top.pc = "body"
    /\ \E kind \in BodyRaises :
          frames' = SetTop(Dispatch(Top, [kind |-> kind, origin |-> Top.aid, cause |-> 0]))
    /\ UNCHANGED <<store, cache, casUnique, cacheVars, restVars, layered, dsStack, mcStack,
                   batches, committed, failed, budget>>

\* The body returns.
TxReturn ==
    /\ frames # <<>>
    /\ Top.pc = "body"
    /\ frames' = SetTop([Top EXCEPT !.pc = "commit"])
    /\ UNCHANGED <<store, cache, casUnique, cacheVars, restVars, layered, dsStack, mcStack,
                   batches, committed, failed, budget>>

\* ds_transaction.commit() at the end of attempt Top.aid: an outer datastore
\* transaction commits its batch or fails with TransactionFailed, an inner
\* one does nothing.  The frame goes on at pc `next`.
DsCommit(ok, next) ==
    /\ ok \/ Entry(dsStack, Top.aid).outer
    /\ IF ok /\ Entry(dsStack, Top.aid).outer
       THEN /\ store' = Applied(store, BatchOf(batches, Top.aid).muts)
            /\ committed' = committed \cup Writers_(BatchOf(batches, Top.aid).muts)
       ELSE UNCHANGED <<store, committed>>
    /\ frames' = SetTop(
          IF ok
          THEN [Top EXCEPT !.after = "return", !.pc = next,
                           !.cm = IF Top.pc = "commit" THEN @ + 1 ELSE @]
          ELSE [Top EXCEPT !.conflicts = @ + 1,
                           !.cause = TransactionFailed(Top.aid),
                           !.after = "retry", !.pc = next,
                           !.cm = IF Top.pc = "commit" THEN @ + 1 ELSE @])

\* transaction.commit().  The outer transaction of the caching adapter runs
\* the commit inside _bust(self.batch): this step is the set_multi of the
\* lock values.  Every other transaction hands the call to the datastore
\* transaction.
TxCommit ==
    /\ frames # <<>>
    /\ Top.pc = "commit"
    /\ IF layered /\ Entry(mcStack, Top.aid).outer
       THEN /\ cache' = Locked(cache, Entry(mcStack, Top.aid).batch, Top.aid, casUnique)
            /\ casUnique' = casUnique + Cardinality(Entry(mcStack, Top.aid).batch)
            /\ frames' = SetTop([Top EXCEPT !.cm = @ + 1, !.pc = "commit write"])
            /\ UNCHANGED <<store, committed>>
       ELSE /\ \E ok \in BOOLEAN : DsCommit(ok, "end")
            /\ UNCHANGED <<cache, casUnique>>
    /\ UNCHANGED <<cacheVars, restVars, layered, dsStack, mcStack, batches, failed, budget>>

\* _MemcacheOuterTransaction.commit, the body of the with block:
\* self.ds_transaction.commit().
TxCommitBacking ==
    /\ frames # <<>>
    /\ Top.pc = "commit write"
    /\ \E ok \in BOOLEAN : DsCommit(ok, "commit bust")
    /\ UNCHANGED <<cache, casUnique, cacheVars, restVars, layered, dsStack, mcStack,
                   batches, failed, budget>>

\* _MemcacheOuterTransaction.commit, the finally clause of _bust:
\* client.delete_multi of the batch; the commit returns or raises.
TxCommitBust ==
    /\ frames # <<>>
    /\ Top.pc = "commit bust"
    /\ cache' = Busted(cache, Entry(mcStack, Top.aid).batch)
    /\ frames' = SetTop([Top EXCEPT !.pc = "end"])
    /\ UNCHANGED <<store, casUnique, cacheVars, restVars, layered, dsStack, mcStack,
                   batches, committed, failed, budget>>

\* transaction.rollback(): the datastore transaction is abandoned; an inner
\* transaction does nothing.
TxRollback ==
    /\ frames # <<>>
    /\ Top.pc = "rollback"
    /\ frames' = SetTop([Top EXCEPT !.rb = @ + 1, !.after = "raise", !.pc = "end"])
    /\ UNCHANGED <<store, cache, casUnique, cacheVars, restVars, layered, dsStack, mcStack,
                   batches, committed, failed, budget>>

\* transaction.end(), the finally clause: an outer transaction pops the
\* client's batch stack; every transaction removes itself from the stacks.
TxEnd ==
    /\ frames # <<>>
    /\ Top.pc = "end"
    /\ batches' = IF Entry(dsStack, Top.aid).outer
                  THEN SubSeq(batches, 1, Len(batches) - 1)
                  ELSE batches
    /\ dsStack' = RemoveTransaction(dsStack, Top.aid)
    /\ mcStack' = IF layered THEN RemoveTransaction(mcStack, Top.aid) ELSE mcStack
    /\ frames' = SetTop([Top EXCEPT !.en = @ + 1,
                                    !.pc = IF Top.after = "retry" THEN "loop" ELSE "exit"])
    /\ UNCHANGED <<store, cache, casUnique, cacheVars, restVars, layered, committed, failed, budget>>

\* inner returns or raises: control is back in the caller, whose body either
\* handles an exception (an exception outside Exception included: a body
\* may catch BaseException) or lets it leave the body.
TxExit ==
    /\ frames # <<>>
    /\ Top.pc = "exit"
    /\ LET callee == Top
           rest == SubSeq(frames, 1, Len(frames) - 1)
       IN /\ failed' = IF callee.exc.kind = "none" \/ rest = <<>> THEN failed
                       ELSE failed \cup {[mine |-> callee.mine, prop |-> callee.prop,
                                          exc |-> callee.exc.kind, wrote |-> callee.wrote,
                                          caller |-> callee.caller,
                                          callerProp |-> rest[Len(rest)].prop]}
          /\ IF rest = <<>> \/ callee.exc.kind = "none"
             THEN frames' = rest
             ELSE \E handles \in BOOLEAN :
                     frames' = [rest EXCEPT ![Len(rest)] =
                                   IF handles
                                   THEN [@ EXCEPT !.handled = TRUE]
                                   ELSE Dispatch(@, callee.exc)]
    /\ UNCHANGED <<store, cache, casUnique, cacheVars, restVars, layered, dsStack, mcStack,
                   batches, committed, budget>>

NextTxn ==
    \/ TxCallTop \/ TxLoop \/ TxBegin \/ TxWrite \/ TxCall
    \/ TxRaise \/ TxReturn \/ TxCommit \/ TxCommitBacking \/ TxCommitBust
    \/ TxRollback \/ TxEnd \/ TxExit

SpecTxn == InitTxn /\ [][NextTxn]_vars

\* The keys of the writes buffered in a batch of the datastore client.
BatchKeys(b) == {b.muts[i].key : i \in 1..Len(b.muts)}

\* C3, the state part: every key written inside a transaction, also by a
\* Nested inner function, is recorded on the enclosing outermost transaction
\* of the caching adapter.
C3_KeysOnOutermost ==
    \A i \in 1..Len(batches) :
        /\ Entry(mcStack, batches[i].id).outer
        /\ BatchKeys(batches[i]) \subseteq Entry(mcStack, batches[i].id).batch

\* C3, the step part: while a transaction is open the cache changes only in
\* the commit of an outermost transaction and only under the keys recorded
\* on it: the commit first sets its lock under every recorded key and, when
\* the datastore commit is over, deletes every recorded key.  Writes and
\* rollbacks leave the cache as it was.
C3_CacheChangesAtCommit ==
    (frames # <<>> /\ InTransaction(mcStack)) =>
        /\ cache' # cache =>
              /\ Top.pc \in {"commit", "commit bust"}
              /\ Entry(mcStack, Top.aid).outer
              /\ \A k \in Keys : cache'[k] # cache[k] =>
                    k \in Entry(mcStack, Top.aid).batch
        /\ (Top.pc = "commit" /\ Entry(mcStack, Top.aid).outer) =>
              \A k \in Entry(mcStack, Top.aid).batch :
                  ValueOf(cache'[k]) = LockValue(Top.aid)
        /\ (Top.pc = "commit bust" /\ Entry(mcStack, Top.aid).outer) =>
              \A k \in Entry(mcStack, Top.aid).batch : cache'[k] = NoItem

\* C3: inside a transaction on the caching adapter put_multi and delete_multi
\* never modify the cache; the keys are recorded on the outermost transaction
\* and busted when it commits, and a rollback leaves the cache unchanged.
C3_CacheDeferredToCommit == [](C3_KeysOnOutermost) /\ [][C3_CacheChangesAtCommit]_vars

\* An outermost transaction has committed and busted a key that only a Nested
\* function called from its body wrote.
C3_Witness ==
    /\ frames # <<>>
    /\ Top.pc = "end"
    /\ Top.after = "return"
    /\ Top.outer
    /\ ~Top.wrote
    /\ Entry(mcStack, Top.aid).batch # {}
    /\ \A k \in Entry(mcStack, Top.aid).batch : cache[k] = NoItem
    /\ \E a \in committed : a # Top.aid

\* C4: a function whose commit conflicts on every attempt makes retries + 1
\* attempts, each in a new transaction whose batch holds no write of an
\* earlier attempt, then raises RetriesExceeded caused by the last
\* TransactionFailed; none of its writes is committed.
C4_RetriesExhausted ==
    \A f \in FrameSet :
        /\ (f.pc = "exit" /\ f.attempts >= 1 /\ f.conflicts = f.attempts) =>
              /\ f.attempts = f.retries + 1
              /\ Cardinality(f.mine) = f.retries + 1
              /\ f.exc.kind = "RetriesExceeded"
              /\ f.exc.cause = f.aid
              /\ f.cause = TransactionFailed(f.aid)
              /\ f.mine \cap committed = {}
        /\ (f.pc = "body" /\ f.outer) =>
              /\ f.bg = 1
              /\ \A m \in Writers_(BatchOf(batches, f.aid).muts) : m >= f.aid

\* A function with the largest number of retries has run out of them, having
\* written in one of its attempts.
C4_Witness ==
    /\ frames # <<>>
    /\ Top.pc = "exit"
    /\ Top.retries = MaxRetries
    /\ Top.conflicts = MaxRetries + 1
    /\ Top.exc.kind = "RetriesExceeded"
    /\ budget.writes > 0

\* C5: when the body raises an Exception other than TransactionFailed the
\* attempt is rolled back once, never committed and never retried, and the
\* exception object that left the body is the one that leaves the call; when
\* it raises an exception that is not an Exception (KeyboardInterrupt,
\* SystemExit, GeneratorExit) the attempt is neither rolled back nor
\* committed nor retried, and that object leaves the call as well.
C5_RollbackAndReraise ==
    \A f \in FrameSet :
        (f.bodyExc.kind \notin {"none", "TransactionFailed"}) =>
            /\ f.cm = 0
            /\ f.exc = f.bodyExc
            /\ IF IsException(f.bodyExc)
               THEN /\ f.pc \in {"rollback", "end", "exit"}
                    /\ f.rb = (IF f.pc = "rollback" THEN 0 ELSE 1)
                    /\ f.after = (IF f.pc = "rollback" THEN "none" ELSE "raise")
               ELSE /\ f.pc \in {"end", "exit"}
                    /\ f.rb = 0
                    /\ f.after = "raise"

\* C5 as the specification words it: whatever the body raises, other than
\* TransactionFailed, is rolled back once before the call is left.
C5_AnyExceptionRolledBack ==
    \A f \in FrameSet :
        (f.bodyExc.kind \notin {"none", "TransactionFailed"} /\ f.pc \in {"end", "exit"}) =>
            /\ f.cm = 0
            /\ f.rb = 1
            /\ f.after = "raise"
            /\ f.exc = f.bodyExc

\* A function that still had retries left has raised the RuntimeError of its
\* body after one attempt.
C5_Witness ==
    /\ frames # <<>>
    /\ Top.pc = "exit"
    /\ Top.bodyExc.kind = "RuntimeError"
    /\ Top.exc.kind = "RuntimeError"
    /\ Top.retries >= 1
    /\ Top.attempts = 1
    /\ Top.rb = 1

\* C6: when a Nested function called from a Nested function fails with a
\* non-conflict exception, neither its writes nor the writes of the calling
\* function are ever committed.
C6_NestedFailureRollsBackBoth ==
    \A rec \in failed :
        (rec.prop = "Nested" /\ rec.callerProp = "Nested" /\ rec.exc = "RuntimeError") =>
            /\ rec.mine \cap committed = {}
            /\ rec.caller \notin committed

\* The transactions a frame is running are on the stacks as outermost
\* transactions with a batch of their own.
OwnTransaction(f) ==
    /\ Entry(dsStack, f.aid).outer
    /\ Entry(mcStack, f.aid).outer
    /\ f.pc # "begin" => \E i \in 1..Len(batches) : batches[i].id = f.aid

\* C7: an Independent function runs in a new outermost transaction whatever
\* is open; when it fails and the calling function handles the exception,
\* returns and commits, the caller's writes are committed and those of the
\* Independent function are not.
C7_IndependentIsolated ==
    /\ \A f \in FrameSet :
          (f.prop = "Independent"
              /\ f.pc \in {"begin", "body", "commit", "commit write", "commit bust",
                            "rollback", "end"})
              => OwnTransaction(f)
    /\ \A rec \in failed : rec.prop = "Independent" => rec.mine \cap committed = {}
    /\ \A f \in FrameSet :
          ( /\ f.pc \in {"end", "exit"}
            /\ f.after = "return"
            /\ f.outer
            /\ f.wrote
            /\ \E rec \in failed : rec.caller = f.aid /\ rec.prop = "Independent" )
          => f.aid \in committed

\* A function that wrote has handled the failure of an Independent function
\* that wrote too, and has committed.
C7_Witness ==
    /\ frames # <<>>
    /\ Top.pc = "exit"
    /\ Top.after = "return"
    /\ Top.wrote
    /\ Top.aid \in committed
    /\ \E rec \in failed :
          /\ rec.caller = Top.aid
          /\ rec.prop = "Independent"
          /\ rec.wrote
          /\ rec.mine \cap committed = {}

\* The exits of an attempt on which inner calls neither commit nor rollback
\* before end: the body itself raised TransactionFailed (`continue`), or it
\* raised an exception `except Exception` does not catch.
EndsWithoutCommitOrRollback(f) ==
    \/ f.bodyExc.kind = "TransactionFailed"
    \/ (f.bodyExc.kind # "none" /\ ~IsException(f.bodyExc))

\* C8: in every attempt begin precedes the body and end is called once; end
\* follows the one call of commit or rollback, except on the exits of
\* EndsWithoutCommitOrRollback, where it follows the body directly; when a
\* call returns or raises, the stacks of the adapters and of the client are
\* what they were at the call.
C8_Lifecycle ==
    /\ \A f \in FrameSet :
          /\ f.pc \in {"body", "commit", "commit write", "commit bust", "rollback"}
                => (f.bg = 1 /\ f.en = 0)
          /\ f.pc = "body" => f.cm + f.rb = 0
          /\ f.pc = "end" => f.en = 0
          /\ (f.pc \in {"loop", "exit"} /\ f.attempts >= 1) =>
                /\ f.bg = 1
                /\ f.en = 1
                /\ f.cm + f.rb = (IF EndsWithoutCommitOrRollback(f) THEN 0 ELSE 1)
          /\ f.pc = "exit" =>
                /\ StackIds(dsStack) = f.dsAtCall
                /\ StackIds(mcStack) = f.mcAtCall
                /\ Len(batches) = f.batchesAtCall
    /\ frames = <<>> => (dsStack = <<>> /\ mcStack = <<>> /\ batches = <<>>)

\* C8 as the specification words it: on every exit path of an attempt end
\* is called once, after exactly one call of commit or rollback.
C8_EndAfterCommitOrRollback ==
    \A f \in FrameSet :
        (f.pc \in {"loop", "exit"} /\ f.attempts >= 1) =>
            /\ f.bg = 1
            /\ f.en = 1
            /\ f.cm + f.rb = 1

\* The outermost call is over after a call inside it failed and every
\* attempt of the run was used.
C8_Witness ==
    /\ frames = <<>>
    /\ budget.attempts = MaxAttempts
    /\ failed # {}
    /\ dsStack = <<>>

(***************************************************************************)
(* SpecBatch: one thread calling get_multi, put_multi and delete_multi of  *)
(* model.py outside transactions, through the caching adapter or the plain *)
(* datastore adapter.  Every step is one call to memcached or to the       *)
(* datastore, preceded by what the code does before it.  The keys are full *)
(* keys, the datastore client answers a lookup in one round (nothing       *)
(* deferred).                                                              *)
(***************************************************************************)
MaxBatch == 2
MaxCalls == 1

\* The lists of keys a call may be given, duplicates included.
KeySeqs == UNION {[1..n -> Keys] : n \in 0..MaxBatch}

Range(seq) == {seq[i] : i \in 1..Len(seq)}

\* list.index: the first position holding the key.
FirstIndex(keys, k) ==
    CHOOSE i \in 1..Len(keys) : keys[i] = k /\ \A j \in 1..(i - 1) : keys[j] # k

\* The keys of a dict built from the list: each key once, in the order of
\* first occurrence.
RECURSIVE DictKeys(_)
DictKeys(keys) ==
    IF keys = <<>> THEN <<>>
    ELSE LET front == DictKeys(SubSeq(keys, 1, Len(keys) - 1))
             last == keys[Len(keys)]
         IN IF last \in Range(front) THEN front ELSE Append(front, last)

\* Hooks that are consulted for the first element only.
HooksPass_FirstOnly(n, raiseAt) == raiseAt # 1

\* The loop over the batch that precedes the adapter call: the pre hook is
\* called for every element in turn, and the first one that raises ends the
\* call.  raiseAt is the position of that element, 0 when no hook raises.
HooksPass(n, raiseAt) == raiseAt \notin 1..n

\* DatastoreAdapter.get_multi: the client is asked for the set of keys, and
\* each entity found is stored at datastore_keys.index(entity.key).
DatastoreGetMulti(keys, st) ==
    [i \in 1..Len(keys) |->
        IF st[keys[i]] # NoEntity /\ FirstIndex(keys, keys[i]) = i
        THEN st[keys[i]]
        ELSE NoEntity]

\* MemcacheAdapter.get_multi: the keys whose cached data is missing or a lock.
Missing(keys, c) == SelectSeq(DictKeys(keys), LAMBDA k : ~CacheHit(c[k]))

\* MemcacheAdapter.get_multi: the list `found` after the cached data was
\* sorted out, each cached entity at keys.index(anom_key).
Found(keys, c) ==
    [i \in 1..Len(keys) |->
        IF FirstIndex(keys, keys[i]) = i /\ CacheHit(c[keys[i]])
        THEN Loads(ValueOf(c[keys[i]]))
        ELSE NoEntity]

\* MemcacheAdapter.get_multi: the entities fetched for the missing keys are
\* entered in `found`, each at keys.index(anom_key).
Fetched(keys, found, missing, ds_results) ==
    [i \in 1..Len(keys) |->
        IF FirstIndex(keys, keys[i]) = i /\ keys[i] \in Range(missing)
        THEN ds_results[FirstIndex(missing, keys[i])]
        ELSE found[i]]

\* MemcacheAdapter.get_multi, the loop over zip(missing, ds_results): the
\* next position from j on whose entity is not None, 0 when there is none.
NextToCache(ds_results, j) ==
    LET rest == {n \in j..Len(ds_results) : ds_results[n] # NoEntity}
    IN IF rest = {} THEN 0 ELSE CHOOSE n \in rest : \A o \in rest : n <= o

\* The record of a call that ended before the adapter was reached: the list
\* was empty (get_multi and put_multi return [], delete_multi None) or a hook
\* raised.
Aborted(op, keys, raiseAt, raised) ==
    [op |-> op, keys |-> keys, raiseAt |-> raiseAt, invalidAt |-> 0, result |-> <<>>,
     raised |-> raised, adapterCalls |-> 0, storeBefore |-> store, n |-> call.n + 1,
     pc |-> "done",
     returns |-> IF raised THEN "raised" ELSE IF op = "delete" THEN "None" ELSE "list",
     missing |-> <<>>, ds_results |-> <<>>, i |-> 0, cid |-> 0]

\* The record of a call that reached the adapter and returned: get_multi
\* and put_multi return a list, delete_multi returns None.
Completed(op, keys, raiseAt, result) ==
    [op |-> op, keys |-> keys, raiseAt |-> raiseAt, invalidAt |-> 0,
     result |-> IF op = "delete" THEN <<>> ELSE result,
     raised |-> FALSE, adapterCalls |-> 1, storeBefore |-> store, n |-> call.n + 1,
     pc |-> "done", returns |-> IF op = "delete" THEN "None" ELSE "list",
     missing |-> <<>>, ds_results |-> <<>>, i |-> 0, cid |-> 0]

\* The record of a put_multi in which the adapter raised RuntimeError for
\* the entity at invalidAt.
Rejected(keys, invalidAt) ==
    [op |-> "put", keys |-> keys, raiseAt |-> 0, invalidAt |-> invalidAt, result |-> <<>>,
     raised |-> TRUE, adapterCalls |-> 1, storeBefore |-> store, n |-> call.n + 1,
     pc |-> "done", returns |-> "raised",
     missing |-> <<>>, ds_results |-> <<>>, i |-> 0, cid |-> 0]

\* The record of a call that is inside the caching adapter, waiting at pc
\* for its next call to memcached or to the backing adapter.
Pending(op, keys, raiseAt, invalidAt, pc_) ==
    [op |-> op, keys |-> keys, raiseAt |-> raiseAt, invalidAt |-> invalidAt,
     result |-> <<>>, raised |-> FALSE, adapterCalls |-> 1, storeBefore |-> store,
     n |-> call.n + 1, pc |-> pc_, returns |-> "",
     missing |-> <<>>, ds_results |-> <<>>, i |-> 0, cid |-> 0]

\* A put_multi that hands the client the entities preceding the invalid one.
Written_Prefix(keys, invalidAt) ==
    IF invalidAt \in 1..Len(keys) THEN SubSeq(keys, 1, invalidAt - 1) ELSE keys

\* DatastoreAdapter.put_multi: every request is turned into a datastore
\* entity, Property.prepare_to_store raising RuntimeError for a required
\* property without a value, before client.put_multi is given the list.
\* invalidAt is the position of the first such entity, 0 when there is none;
\* the result is the keys that reach the client.
Written(keys, invalidAt) ==
    IF invalidAt \in 1..Len(keys) THEN <<>> ELSE keys

\* The backing adapter's put_multi or delete_multi: what the store holds
\* afterwards.
Stored(st, op, keys, invalidAt, by) ==
    LET written == Written(keys, invalidAt)
    IN Applied(st, [i \in 1..Len(written) |-> Mutation(written[i], op, by)])

\* Which adapter is installed, what is stored, and what earlier reads cached.
InitBatch ==
    /\ layered \in BOOLEAN
    /\ TxnIdle
    /\ CacheIdle
    /\ ModelIdle
    /\ store \in [Keys -> {NoEntity, InitialEntity}]
    /\ \E cached \in SUBSET Keys :
          cache = [k \in Keys |->
                      IF layered /\ k \in cached /\ store[k] # NoEntity
                      THEN McSet(NoItem, Dumps(store[k]), 1)
                      ELSE NoItem]

\* model.get_multi(keys) up to its first call to a server: the hooks, then
\* the lookup of the bare adapter, which ends the call, or client.get_multi
\* of the caching adapter and the sorting into found and missing.
GetMulti ==
    /\ call.pc = "done"
    /\ call.n < MaxCalls
    /\ \E keys \in KeySeqs, raiseAt \in 0..MaxBatch :
          /\ raiseAt <= Len(keys)
          /\ IF keys = <<>> \/ ~HooksPass(Len(keys), raiseAt)
             THEN call' = Aborted("get", keys, raiseAt, keys # <<>>)
             ELSE IF layered /\ ~InTransaction(mcStack)
             THEN call' = [Pending("get", keys, raiseAt, 0, "lookup") EXCEPT
                              !.result = Found(keys, cache),
                              !.missing = Missing(keys, cache)]
             ELSE call' = Completed("get", keys, raiseAt, DatastoreGetMulti(keys, store))
    /\ UNCHANGED <<store, cache, casUnique, cacheVars, txnVars, modelVars>>

\* The get_multi is through with the entity at position j of missing: it
\* turns to the next one that is not None, or returns.
CacheNext(c, j) ==
    LET n == NextToCache(c.ds_results, j + 1)
    IN IF n = 0
       THEN [c EXCEPT !.pc = "done", !.returns = "list", !.i = 0, !.cid = 0]
       ELSE [c EXCEPT !.pc = "gets", !.i = n, !.cid = 0]

\* MemcacheAdapter.get_multi: self.adapter.get_multi(missing).
GetLookup ==
    /\ call.pc = "lookup"
    /\ LET ds_results == DatastoreGetMulti(call.missing, store)
       IN call' = CacheNext([call EXCEPT
                     !.ds_results = ds_results,
                     !.result = Fetched(call.keys, call.result, call.missing, ds_results)], 0)
    /\ UNCHANGED <<store, cache, casUnique, cacheVars, txnVars, modelVars>>

\* _cache for the entity at call.i: client.gets(key) and the two tests that
\* follow it.
GetCacheGets ==
    /\ call.pc = "gets"
    /\ LET item == cache[call.missing[call.i]]
       IN call' = IF ForeignLock(item, call.n) THEN CacheNext(call, call.i)
                  ELSE IF item.kind = "none" THEN [call EXCEPT !.pc = "add"]
                  ELSE [call EXCEPT !.pc = "cas", !.cid = item.cas]
    /\ UNCHANGED <<store, cache, casUnique, cacheVars, txnVars, modelVars>>

\* _cache: client.add(key, current_lock, _lock_timeout); continue.
GetCacheAdd ==
    /\ call.pc = "add"
    /\ LET k == call.missing[call.i]
       IN /\ casUnique' = IF cache[k].kind = "none" THEN casUnique + 1 ELSE casUnique
          /\ cache' = [cache EXCEPT ![k] = McAdd(@, LockValue(call.n), casUnique')]
    /\ call' = [call EXCEPT !.pc = "gets"]
    /\ UNCHANGED <<store, cacheVars, txnVars, modelVars>>

\* _cache: return client.cas(key, data, cid, _item_timeout).
GetCacheCas ==
    /\ call.pc = "cas"
    /\ LET k == call.missing[call.i]
           data == Dumps(call.ds_results[call.i])
       IN /\ casUnique' = IF McCas(cache[k], data, call.cid, 0) # cache[k]
                          THEN casUnique + 1 ELSE casUnique
          /\ cache' = [cache EXCEPT ![k] = McCas(@, data, call.cid, casUnique')]
    /\ call' = CacheNext(call, call.i)
    /\ UNCHANGED <<store, cacheVars, txnVars, modelVars>>

\* What put_multi and delete_multi share up to their first call to a
\* server: the hooks, then the write of the bare adapter, which ends the
\* call, or the set_multi of _bust in the caching adapter.
WriteMulti(op, keys, raiseAt, invalidAt) ==
    IF keys = <<>> \/ ~HooksPass(Len(keys), raiseAt)
    THEN /\ call' = Aborted(op, keys, raiseAt, keys # <<>>)
         /\ UNCHANGED <<store, cache, casUnique>>
    ELSE IF layered
    THEN /\ call' = Pending(op, keys, raiseAt, invalidAt, "write")
         /\ cache' = Locked(cache, Range(keys), call.n + 1, casUnique)
         /\ casUnique' = casUnique + Cardinality(Range(keys))
         /\ UNCHANGED store
    ELSE /\ call' = IF invalidAt = 0 THEN Completed(op, keys, raiseAt, keys)
                    ELSE Rejected(keys, invalidAt)
         /\ store' = Stored(store, op, keys, invalidAt, call.n + 1)
         /\ UNCHANGED <<cache, casUnique>>

\* model.put_multi(entities), the entities carrying the given keys.  Which
\* entity lacks a required value only matters when no hook raises.
PutMulti ==
    /\ call.pc = "done"
    /\ call.n < MaxCalls
    /\ \E keys \in KeySeqs, raiseAt \in 0..MaxBatch, invalidAt \in 0..MaxBatch :
          /\ raiseAt <= Len(keys)
          /\ invalidAt <= Len(keys)
          /\ raiseAt # 0 => invalidAt = 0
          /\ WriteMulti("put", keys, raiseAt, invalidAt)
    /\ UNCHANGED <<cacheVars, txnVars, modelVars>>

\* model.delete_multi(keys)
DeleteMulti ==
    /\ call.pc = "done"
    /\ call.n < MaxCalls
    /\ \E keys \in KeySeqs, raiseAt \in 0..MaxBatch :
          /\ raiseAt <= Len(keys)
          /\ WriteMulti("delete", keys, raiseAt, 0)
    /\ UNCHANGED <<cacheVars, txnVars, modelVars>>

\* The body of `with self._bust(...)`: self.adapter.put_multi(requests) or
\* self.adapter.delete_multi(keys), which writes or raises.
WriteBacking ==
    /\ call.pc = "write"
    /\ store' = Stored(store, call.op, call.keys, call.invalidAt, call.n)
    /\ call' = [call EXCEPT !.pc = "bust"]
    /\ UNCHANGED <<cache, casUnique, cacheVars, txnVars, modelVars>>

\* _bust, the finally clause: client.delete_multi(memcache_keys); then the
\* call returns, or the exception of the backing write leaves it.
WriteBust ==
    /\ call.pc = "bust"
    /\ cache' = Busted(cache, Range(call.keys))
    /\ call' = [call EXCEPT
          !.pc = "done",
          !.raised = call.invalidAt # 0,
          !.result = IF call.invalidAt = 0 /\ call.op = "put" THEN call.keys ELSE <<>>,
          !.returns = IF call.invalidAt # 0 THEN "raised"
                      ELSE IF call.op = "delete" THEN "None" ELSE "list"]
    /\ UNCHANGED <<store, casUnique, cacheVars, txnVars, modelVars>>

NextBatch ==
    \/ GetMulti \/ GetLookup \/ GetCacheGets \/ GetCacheAdd \/ GetCacheCas
    \/ PutMulti \/ DeleteMulti \/ WriteBacking \/ WriteBust

SpecBatch == InitBatch /\ [][NextBatch]_vars

\* C9: get_multi returns a list as long as the list of keys, holding at
\* position i the entity stored under keys[i], or None when there is none;
\* lists in which a key occurs more than once included.
C9_ResultsMatchPositions ==
    (call.op = "get" /\ call.pc = "done" /\ ~call.raised) =>
        /\ Len(call.result) = Len(call.keys)
        /\ \A i \in 1..Len(call.keys) : call.result[i] = store[call.keys[i]]

\* C11: a put_multi of a batch holding an entity without a value for a
\* required property raises, and the store holds what it held before the
\* call, the entities that precede the invalid one included.
C11_InvalidEntityWritesNothing ==
    (call.op = "put" /\ call.invalidAt # 0) =>
        /\ call.pc = "done" => call.raised
        /\ store = call.storeBefore

\* A put_multi of several entities, the last of them invalid and the first
\* one not stored before, has raised inside the adapter.
C11_Witness ==
    /\ call.op = "put"
    /\ Len(call.keys) >= 2
    /\ call.invalidAt = Len(call.keys)
    /\ call.pc = "done"
    /\ call.raised
    /\ call.adapterCalls = 1
    /\ store[call.keys[1]] = NoEntity

\* C10: when a pre hook raises for an element of the batch, the call raises,
\* the adapter is not invoked and the store is what it was.
C10_HookAbortsBatch ==
    (call.op # "none" /\ call.raiseAt # 0) =>
        /\ call.raised
        /\ call.adapterCalls = 0
        /\ store = call.storeBefore

\* A put_multi of several entities whose hook raised for the last of them.
C10_Witness ==
    /\ call.op = "put"
    /\ Len(call.keys) >= 2
    /\ call.raiseAt = Len(call.keys)
    /\ call.raised
    /\ call.adapterCalls = 0
    /\ \E k \in Keys : store[k] = InitialEntity

(***************************************************************************)
(* SpecKey: anom.model.Key.  A key is the tuple (kind, id_or_name,         *)
(* parent, namespace).  A kind is a number of 1..NumKinds.  An id_or_name  *)
(* is a record [type, n]: None is [type |-> "none", n |-> 0], the integer  *)
(* i is [type |-> "int", n |-> i], and a string is [type |-> "str",        *)
(* n |-> its length] (one string per length).  A namespace is 0 for None   *)
(* or a number of 1..NumNamespaces.  parent is <<>> for None or <<p>>.     *)
(* A path is a sequence of records [type, n], a kind being                 *)
(* [type |-> "kind", n |-> kind].                                          *)
(***************************************************************************)
NumKinds == 2
MaxId == 1
NumNamespaces == 1
MaxDepth == 2

\* The values id_or_name is drawn from: None, 0..MaxId and the strings of
\* length 0..MaxId.
IdValues ==
    {[type |-> "none", n |-> 0]}
        \cup [type : {"int", "str"}, n : 0..MaxId]

\* bool(id_or_name): None, 0 and "" are false.
Truthy(id) == id.type # "none" /\ id.n # 0

\* Key.path: the parent's path followed by the kind and, when id_or_name
\* is true, the id_or_name.
RECURSIVE Path(_)
Path(key) ==
    LET prefix == IF key.parent # <<>> THEN Path(key.parent[1]) ELSE <<>>
        kind == [type |-> "kind", n |-> key.kind]
    IN IF Truthy(key.id_or_name)
       THEN prefix \o <<kind, key.id_or_name>>
       ELSE prefix \o <<kind>>

\* Key.is_partial.
IsPartial(key) == Len(Path(key)) % 2 # 0

\* Key.__new__: ValueError when the parent is partial.
NewKeyRaises(parent) == parent # <<>> /\ IsPartial(parent[1])

\* Key.from_path: one key per pair of the path, each the parent of the
\* next and each in the given namespace; a trailing kind gets the id None.
RECURSIVE FromPath(_, _, _)
FromPath(path, namespace, parent) ==
    IF path = <<>> THEN parent
    ELSE LET id == IF Len(path) >= 2 THEN path[2] ELSE [type |-> "none", n |-> 0]
             key == [kind |-> path[1].n, id_or_name |-> id,
                     parent |-> parent, namespace |-> namespace]
         IN FromPath(SubSeq(path, 3, Len(path)), namespace, <<key>>)

\* Key.__eq__ on two keys: the parents (compared the same way), then the
\* namespaces, then the paths.
RECURSIVE KeyEq(_, _)
KeyEq(a, b) ==
    /\ Len(a.parent) = Len(b.parent)
    /\ a.parent # <<>> => KeyEq(a.parent[1], b.parent[1])
    /\ a.namespace = b.namespace
    /\ Path(a) = Path(b)

\* The number of keys in the chain of a key (<<>> or <<key>>).
RECURSIVE Depth(_)
Depth(k) == IF k = <<>> THEN 0 ELSE 1 + Depth(k[1].parent)

\* No key has been built.
InitKey ==
    /\ AdapterIdle
    /\ registry = <<>> /\ ent = <<>> /\ query = <<>> /\ LibIdle
    /\ keyst = [key |-> <<>>, raised |-> FALSE, rebuilt |-> <<>>, namespace |-> 0]

\* Key(kind, id_or_name, parent, namespace), the parent being None or the
\* key built last.
NewKey ==
    \E kind \in 1..NumKinds, id \in IdValues, namespace \in 0..NumNamespaces,
       parent \in {<<>>, keyst.key} :
        /\ Depth(parent) < MaxDepth
        /\ keyst' = IF NewKeyRaises(parent)
                    THEN [keyst EXCEPT !.raised = TRUE, !.rebuilt = <<>>]
                    ELSE [key |-> <<[kind |-> kind, id_or_name |-> id,
                                     parent |-> parent, namespace |-> namespace]>>,
                          raised |-> FALSE, rebuilt |-> <<>>, namespace |-> 0]
        /\ UNCHANGED <<adapterVars, libVars, registry, ent, query>>

\* Key.from_path(*key.path, namespace=namespace) on the key built last.
RebuildKey ==
    /\ keyst.key # <<>>
    /\ keyst.rebuilt = <<>>
    /\ \E namespace \in 0..NumNamespaces :
        keyst' = [keyst EXCEPT !.raised = FALSE, !.namespace = namespace,
                               !.rebuilt = FromPath(Path(keyst.key[1]), namespace, <<>>)]
    /\ UNCHANGED <<adapterVars, libVars, registry, ent, query>>

SpecKey == InitKey /\ [][NewKey \/ RebuildKey]_vars

\* C12: a key whose id_or_name is an integer or a string is not partial
\* and its path ends with its kind and its id_or_name, and a key is partial
\* exactly when its id_or_name is None.
C12_PartialIffNoId ==
    keyst.key # <<>> =>
        LET key == keyst.key[1]
            path == Path(key)
        IN /\ key.id_or_name.type # "none" =>
                /\ ~IsPartial(key)
                /\ Len(path) >= 2
                /\ SubSeq(path, Len(path) - 1, Len(path))
                       = <<[type |-> "kind", n |-> key.kind], key.id_or_name>>
           /\ IsPartial(key) <=> key.id_or_name.type = "none"

\* C13: a key that is not partial, rebuilt by Key.from_path from its path
\* and its namespace, equals the rebuilt key.
C13_FromPathRoundTrip ==
    (/\ keyst.rebuilt # <<>>
     /\ ~IsPartial(keyst.key[1])
     /\ keyst.namespace = keyst.key[1].namespace)
        => KeyEq(keyst.rebuilt[1], keyst.key[1])

(***************************************************************************)
(* SpecRegistry: the metaclass anom.model.model and _known_models.  Class  *)
(* names and kind names are numbers of 1..NumNames; a model class is       *)
(* numbered in the order of its definition and 0 stands for "no class":    *)
(* the base Model as a base, a missing entry of _known_models.  classes    *)
(* holds, for each class defined, its base, _kind, _kinds, _is_root and    *)
(* _is_child.  Every class defined stays referenced (_known_models holds   *)
(* its values weakly).  stored holds the entities put, in the order of     *)
(* the store: the class of the instance put (cls), the kind of its key     *)
(* and its "^k" field, <<>> when it has none.  queried is the model last   *)
(* queried through (0 for none) and result what the query yielded.         *)
(***************************************************************************)
NumNames == 3
MaxClasses == 3
MaxStored == 2

\* model._is_polymorphic
IsPolymorphic(clazz) == clazz.isRoot \/ clazz.isChild

\* The attributes model.__new__ computes for a class statement with the
\* given name, _kind attribute (0 when the body has none), base (0 for
\* Model) and poly argument.
NewClass(classname, kindAttr, base, poly) ==
    LET kind == IF kindAttr # 0 THEN kindAttr ELSE classname
        isChild == base # 0 /\ IsPolymorphic(registry.classes[base])
    IN [base |-> base,
        kind |-> IF isChild THEN registry.classes[base].kind ELSE kind,
        kinds |-> <<kind>> \o (IF base # 0 THEN registry.classes[base].kinds ELSE <<>>),
        isRoot |-> poly,
        isChild |-> isChild]

\* lookup_model_by_kind: the class registered for the kind, 0 standing for
\* the RuntimeError raised when there is none.
LookupModelByKind(known, kind) == known[kind]

\* The number of names that classes were defined under.  Names are
\* interchangeable, so they are taken into use in increasing order.
NamesUsed ==
    Cardinality({registry.classes[c].kinds[1] : c \in 1..Len(registry.classes)})

\* No model class has been defined.
InitRegistry ==
    /\ AdapterIdle
    /\ keyst = <<>> /\ ent = <<>> /\ query = <<>> /\ LibIdle
    /\ registry = [known |-> [kind \in 1..NumNames |-> 0],
                   classes |-> <<>>, stored |-> <<>>, queried |-> 0, result |-> <<>>,
                   last |-> [kind |-> 0, duplicate |-> FALSE, raised |-> FALSE,
                             before |-> [kind \in 1..NumNames |-> 0]]]

\* A class statement whose metaclass is model: model.__new__.
DefineModel ==
    /\ Len(registry.classes) < MaxClasses
    /\ registry.queried = 0
    /\ \E classname \in 1..NumNames, kindAttr \in 0..NumNames,
          base \in 0..Len(registry.classes), poly \in BOOLEAN :
        LET clazz == NewClass(classname, kindAttr, base, poly)
            kind == clazz.kinds[1]
            duplicate == registry.known[kind] # 0
            raises == duplicate /\ ~clazz.isChild
            last == [kind |-> kind, duplicate |-> duplicate, raised |-> raises,
                     before |-> registry.known]
        IN /\ kind <= NamesUsed + 1
           /\ registry' =
                 IF raises
                 THEN [registry EXCEPT !.last = last]
                 ELSE [registry EXCEPT
                           !.known = [@ EXCEPT ![kind] = Len(registry.classes) + 1],
                           !.classes = Append(@, clazz),
                           !.last = last]
    /\ UNCHANGED <<adapterVars, libVars, keyst, ent, query>>

\* Model.__init__ and Model.__iter__ as put_multi stores them: the key is
\* Key(self._kind) and a polymorphic instance carries "^k", its _kinds.
StoredEntity(c) ==
    [cls |-> c,
     kind |-> registry.classes[c].kind,
     hierarchy |-> IF IsPolymorphic(registry.classes[c])
                   THEN registry.classes[c].kinds ELSE <<>>]

\* Query._prepare had it left the query as it is.
Prepare_Unfiltered(clazz) == {}

\* Query._prepare: the filter ("^k", "=", model._kinds[0]) a query through
\* a polymorphic child gets, as the set of names it admits; {} is no filter.
Prepare(clazz) == IF clazz.isChild THEN {clazz.kinds[1]} ELSE {}

\* The datastore query of a kind under an equality filter on "^k", which a
\* list value passes when one of its elements is equal.
Matches(e, kind, filter) ==
    /\ e.kind = kind
    /\ \A name \in filter : \E i \in 1..Len(e.hierarchy) : e.hierarchy[i] = name

\* key.get_model()._load(key, data): the class the entity is loaded as, 0
\* standing for the RuntimeError of a kind that is not registered.
LoadedClass(e) ==
    LET cls == LookupModelByKind(registry.known, e.kind)
    IN IF cls # 0 /\ IsPolymorphic(registry.classes[cls]) /\ e.hierarchy # <<>>
       THEN LookupModelByKind(registry.known, e.hierarchy[1])
       ELSE cls

\* The entities of a sequence that a query yields, in order, each with
\* the class it is loaded as.
RECURSIVE RunQuery(_, _, _)
RunQuery(entities, kind, filter) ==
    IF entities = <<>> THEN <<>>
    ELSE LET e == Head(entities)
             rest == RunQuery(Tail(entities), kind, filter)
         IN IF Matches(e, kind, filter)
            THEN <<[cls |-> e.cls, loaded |-> LoadedClass(e)]>> \o rest
            ELSE rest

\* cls(...).put() for a model class cls.
PutInstance ==
    /\ Len(registry.stored) < MaxStored
    /\ registry.queried = 0
    /\ \E c \in 1..Len(registry.classes) :
          registry' = [registry EXCEPT !.stored = Append(@, StoredEntity(c))]
    /\ UNCHANGED <<adapterVars, libVars, keyst, ent, query>>

\* list(m.query().run()) for a model class m.
QueryModel ==
    /\ registry.queried = 0
    /\ \E m \in 1..Len(registry.classes) :
          registry' = [registry EXCEPT
                          !.queried = m,
                          !.result = RunQuery(registry.stored, registry.classes[m].kind,
                                              Prepare(registry.classes[m]))]
    /\ UNCHANGED <<adapterVars, libVars, keyst, ent, query>>

SpecRegistry == InitRegistry /\ [][DefineModel \/ PutInstance \/ QueryModel]_vars

\* C14: the kind name a non-polymorphic model class registered resolves to
\* that class after every later class definition, and the last definition,
\* when its kind name was registered to a non-polymorphic model already,
\* raised TypeError and left the registry as it was.
C14_RegisteredKindKeepsItsModel ==
    /\ \A c \in 1..Len(registry.classes) :
          ~IsPolymorphic(registry.classes[c])
              => LookupModelByKind(registry.known, registry.classes[c].kinds[1]) = c
    /\ (/\ registry.last.duplicate
        /\ ~IsPolymorphic(registry.classes[registry.last.before[registry.last.kind]]))
          => registry.last.raised /\ registry.known = registry.last.before

\* issubclass(c, m) over the bases of the classes defined.
RECURSIVE IsSubclass(_, _)
IsSubclass(c, m) ==
    IF c = m THEN TRUE
    ELSE IF c = 0 THEN FALSE
    ELSE IsSubclass(registry.classes[c].base, m)

\* The root of the polymorphic hierarchy of a polymorphic class.
RECURSIVE RootOf(_)
RootOf(c) ==
    IF registry.classes[c].isChild THEN RootOf(registry.classes[c].base) ELSE c

\* The entities of a sequence whose class is m or a descendant of m.
RECURSIVE InstancesOf(_, _)
InstancesOf(entities, m) ==
    IF entities = <<>> THEN <<>>
    ELSE IF IsSubclass(Head(entities).cls, m)
         THEN <<[cls |-> Head(entities).cls, loaded |-> Head(entities).cls]>>
                  \o InstancesOf(Tail(entities), m)
         ELSE InstancesOf(Tail(entities), m)

\* Every class defined is the one registered under its own name.
DistinctNames ==
    \A c \in 1..Len(registry.classes) :
        LookupModelByKind(registry.known, registry.classes[c].kinds[1]) = c

\* The entities stored are under the kind of the root of their hierarchy,
\* and a query through a polymorphic model yields the stored entities whose
\* class is that model or a descendant of it, each loaded as its own class.
QueriesFollowHierarchy ==
    /\ \A i \in 1..Len(registry.stored) :
          LET e == registry.stored[i]
          IN IsPolymorphic(registry.classes[e.cls])
                => e.kind = registry.classes[RootOf(e.cls)].kinds[1]
    /\ (registry.queried # 0 /\ IsPolymorphic(registry.classes[registry.queried]))
          => registry.result = InstancesOf(registry.stored, registry.queried)

StoredClasses == {registry.stored[i].cls : i \in 1..Len(registry.stored)}

NumProps == 2

PropNames == 1..NumProps
FieldNames == 1..(2 * NumProps)
NotFound == "NotFound"
Values == {"None", "False", "True"}

\* The functions of anom.conditions, "none" standing for no indexed_if.
Conditions ==
    {"none", "is_default", "is_not_default", "is_empty", "is_not_empty",
     "is_none", "is_not_none", "is_true", "is_false"}

\* Property.__init__: the declarations of a property that matter here.
PropertyDecls ==
    [renamed : BOOLEAN, indexed : BOOLEAN, indexed_if : Conditions,
     default : {"None", "True"}]

\* Property.indexed as __init__ sets it.
Indexed(prop) == prop.indexed \/ prop.indexed_if # "none"

\* Property.name_on_entity after __set_name__.
NameOnEntity(e, p) == IF e.props[p].renamed THEN NumProps + p ELSE p

\* Property.__get__
Get(e, p) ==
    LET value == e.data[NameOnEntity(e, p)]
    IN IF value # NotFound THEN value
       ELSE e.props[p].default

\* Property.__set__
Set(e, p, value) == [e.data EXCEPT ![NameOnEntity(e, p)] = value]

\* Property.__delete__: del ob._data[name_on_entity]; a name that _data does
\* not hold raises KeyError and _data stays as it is.
Delete(e, p) == [e.data EXCEPT ![NameOnEntity(e, p)] = NotFound]

\* prop.indexed_if(entity, prop, name), name being the attribute name.
IndexedIf(e, p) ==
    LET cond == e.props[p].indexed_if
        inData == e.data[p] # NotFound
    IN CASE cond = "is_default" -> Get(e, p) = e.props[p].default
         [] cond = "is_not_default" -> Get(e, p) # e.props[p].default
         [] cond = "is_empty" -> ~inData
         [] cond = "is_not_empty" -> inData
         [] cond = "is_none" -> inData /\ Get(e, p) = "None"
         [] cond = "is_not_none" -> inData /\ Get(e, p) # "None"
         [] cond = "is_true" -> inData /\ Get(e, p) = "True"
         [] cond = "is_false" -> inData /\ Get(e, p) # "True"
         [] OTHER -> FALSE

\* Model.unindexed_properties
UnindexedProperties(e) ==
    {NameOnEntity(e, p) : p \in {q \in PropNames :
        \/ ~Indexed(e.props[q])
        \/ e.props[q].indexed_if # "none" /\ IndexedIf(e, q)}}

\* dict(entity): Model.__iter__, each property under its name on the entity.
Iter(e) ==
    [n \in FieldNames |->
        IF \E p \in PropNames : NameOnEntity(e, p) = n
        THEN Get(e, CHOOSE p \in PropNames : NameOnEntity(e, p) = n)
        ELSE NotFound]

\* Model._load: instance._data[name] = data.get(name) for every attribute
\* name, data.get giving None for a name the data lacks.
Load(data) ==
    [n \in FieldNames |->
        IF n \in PropNames
        THEN IF data[n] # NotFound THEN data[n] ELSE "None"
        ELSE NotFound]

\* A new instance, no property assigned, of a class with any declarations.
InitEntity ==
    /\ AdapterIdle
    /\ keyst = <<>> /\ registry = <<>> /\ query = <<>> /\ LibIdle
    /\ \E props \in [PropNames -> PropertyDecls] :
          ent = [props |-> props, data |-> [n \in FieldNames |-> NotFound],
                 read |-> FALSE, unindexed |-> {}, loaded |-> <<>>, raised |-> ""]

\* entity.p = value
SetProperty ==
    /\ \E p \in PropNames, value \in Values :
          ent' = [ent EXCEPT !.data = Set(ent, p, value), !.read = FALSE,
                             !.unindexed = {}, !.loaded = <<>>, !.raised = ""]
    /\ UNCHANGED <<adapterVars, libVars, keyst, registry, query>>

\* del entity.p
DeleteProperty ==
    /\ \E p \in PropNames :
          ent' = IF ent.data[NameOnEntity(ent, p)] = NotFound
                 THEN [ent EXCEPT !.raised = "KeyError"]
                 ELSE [ent EXCEPT !.data = Delete(ent, p), !.read = FALSE,
                                  !.unindexed = {}, !.loaded = <<>>, !.raised = ""]
    /\ UNCHANGED <<adapterVars, libVars, keyst, registry, query>>

\* entity.unindexed_properties
ReadUnindexed ==
    /\ ~ent.read
    /\ ent' = [ent EXCEPT !.read = TRUE, !.unindexed = UnindexedProperties(ent),
                          !.raised = ""]
    /\ UNCHANGED <<adapterVars, libVars, keyst, registry, query>>

\* type(entity)._load(entity.key, dict(entity))
StoreAndLoad ==
    /\ ent.loaded = <<>>
    /\ ent' = [ent EXCEPT !.loaded = <<Load(Iter(ent))>>, !.raised = ""]
    /\ UNCHANGED <<adapterVars, libVars, keyst, registry, query>>

SpecEntity ==
    InitEntity /\ [][SetProperty \/ DeleteProperty \/ ReadUnindexed \/ StoreAndLoad]_vars

\* C16: unindexed_properties, read from the current values, lacks a
\* property declared with indexed_if exactly when the predicate holds, and
\* has every property that is not indexed.
C16_UnindexedIffPredicateFalse ==
    ent.read =>
        \A p \in PropNames :
            /\ ent.props[p].indexed_if # "none"
                  => (NameOnEntity(ent, p) \notin ent.unindexed <=> IndexedIf(ent, p))
            /\ ~Indexed(ent.props[p]) => NameOnEntity(ent, p) \in ent.unindexed

\* C20: the entity loaded from the data of an entity has the same value
\* for every property.
C20_LoadOfStoredEqualsOriginal ==
    ent.loaded # <<>> =>
        \A p \in PropNames :
            Get([ent EXCEPT !.data = ent.loaded[1]], p) = Get(ent, p)

(***************************************************************************)
(* SpecQuery: Query.run and Query.paginate over a store whose query has    *)
(* total matching entities, numbered 1..total in the order of the store.   *)
(* A cursor is the number of entities before its position; b"" is 0.  The  *)
(* limit None is -1.  The store's query starts at the cursor it is given,  *)
(* skips offset results, returns at most as many entities as asked for     *)
(* and the cursor after the last entity it skipped or returned.            *)
(***************************************************************************)
MaxResults == 4
MaxLimit == 3
MaxPageSize == 2
MaxOffset == 1

\* Python's min / max of two integers.
Min(a, b) == IF a <= b THEN a ELSE b
Max(a, b) == IF a >= b THEN a ELSE b

\* QueryOptions.batch_size: clamped to the limit when there is one.
BatchSize(q) == IF q.limit # -1 THEN Min(q.limit, q.size) ELSE q.size

\* DatastoreAdapter.query: QueryResponse(entities, cursor) for
\* fetch(limit=batch_size, offset=offset, start_cursor=cursor).
AdapterQuery(q) ==
    LET first == Min(q.total, q.cursor + q.offset)
        last == Min(q.total, first + BatchSize(q))
    IN [entities |-> [i \in 1..(last - first) |-> first + i], cursor |-> last]

\* entities[:remaining] had the batch been kept whole.
Truncated_Whole(entities, remaining) == entities

\* entities[:remaining] for a negative remaining.
Truncated(entities, remaining) ==
    SubSeq(entities, 1, Max(0, Len(entities) + remaining))

\* The entities of a sequence of pages, as iterating a Resultset yields them.
RECURSIVE Entities(_)
Entities(pages) ==
    IF pages = <<>> THEN <<>> ELSE Head(pages).items \o Entities(Tail(pages))

\* Nothing has been queried; the store holds any number of entities.
InitQuery ==
    /\ AdapterIdle
    /\ keyst = <<>> /\ registry = <<>> /\ ent = <<>> /\ LibIdle
    /\ \E total \in 0..MaxResults :
          query = [total |-> total, mode |-> "none", limit |-> -1, size |-> 1,
                   offset |-> 0, cursor |-> 0, remaining |-> -1, pages |-> <<>>,
                   pc |-> "idle", fetches |-> 0, requested |-> {}, resumed |-> <<>>]

\* query.run(batch_size=size) or query.paginate(page_size=size) of a query
\* with the given limit and offset: Resultset.__init__, nothing fetched yet.
StartQuery ==
    /\ query.pc = "idle"
    /\ \E mode \in {"run", "paginate"}, limit \in -1..MaxLimit,
          size \in 1..MaxPageSize, offset \in 0..MaxOffset :
          query' = [query EXCEPT !.mode = mode, !.limit = limit, !.size = size,
                                 !.offset = offset, !.remaining = limit,
                                 !.pc = "iterating"]
    /\ UNCHANGED <<adapterVars, libVars, keyst, registry, ent>>

\* One turn of the loop of Resultset._get_batches, from adapter.query to
\* the yield of the batch (a Page, in Pages._get_pages) or the break.
FetchBatch ==
    /\ query.pc = "iterating"
    /\ LET response == AdapterQuery(query)
           remaining == IF query.remaining # -1
                        THEN query.remaining - Len(response.entities)
                        ELSE -1
           limited == query.remaining # -1
           entities == IF limited /\ remaining < 0
                       THEN Truncated(response.entities, remaining)
                       ELSE response.entities
       IN query' = [query EXCEPT
                       !.cursor = response.cursor,
                       !.remaining = IF limited THEN remaining ELSE -1,
                       !.fetches = @ + 1,
                       !.requested = @ \cup {BatchSize(query)},
                       !.pages = IF entities = <<>> THEN @
                                 ELSE Append(@, [items |-> entities,
                                                 cursor |-> response.cursor]),
                       !.pc = IF entities = <<>> \/ (limited /\ remaining <= 0)
                              THEN "done" ELSE "iterating"]
    /\ UNCHANGED <<adapterVars, libVars, keyst, registry, ent>>

\* A later paginate call of the same query with cursor=page.cursor, page
\* being one of the pages of a finished paginate call.
ResumeFromPage ==
    /\ query.pc = "done"
    /\ query.mode = "paginate"
    /\ query.resumed = <<>>
    /\ \E i \in 1..Len(query.pages) :
          query' = [query EXCEPT !.cursor = query.pages[i].cursor,
                                 !.remaining = query.limit,
                                 !.pages = <<>>, !.fetches = 0, !.requested = {},
                                 !.resumed = <<query.pages[i]>>,
                                 !.pc = "iterating"]
    /\ UNCHANGED <<adapterVars, libVars, keyst, registry, ent>>

SpecQuery == InitQuery /\ [][StartQuery \/ FetchBatch \/ ResumeFromPage]_vars

\* The entities lo..hi of the store, in order.
Results(lo, hi) == [i \in 1..Max(0, hi - lo + 1) |-> lo + i - 1]

\* C17: a run or a pagination with a limit, no offset and the default
\* cursor asks the adapter for batches of min(limit, size) entities only,
\* makes at most total + 1 requests, holds at most size entities per page
\* and, once finished, has yielded the first min(limit, total) entities in
\* the order of the store, each once.
C17_LimitedRun ==
    (query.pc # "idle" /\ query.limit # -1 /\ query.offset = 0 /\ query.resumed = <<>>)
        => /\ query.requested \subseteq {Min(query.limit, query.size)}
           /\ query.fetches <= query.total + 1
           /\ \A i \in 1..Len(query.pages) : Len(query.pages[i].items) <= query.size
           /\ query.pc = "done"
                 => Entities(query.pages) = Results(1, Min(query.limit, query.total))

\* A finished pagination whose limit cut the last of several pages short.
C17_Witness ==
    /\ query.pc = "done" /\ query.mode = "paginate" /\ query.resumed = <<>>
    /\ query.offset = 0
    /\ query.limit = 3 /\ query.size = 2 /\ query.total > 3
    /\ Len(query.pages) = 2
    /\ Entities(query.pages) = <<1, 2, 3>>

\* C18: a pagination of a query without offset that was resumed from the
\* cursor of a page yields, once finished, the entities that follow the
\* last entity of that page (as many as the limit allows), none skipped
\* and none repeated.
C18_ResumeFromPageCursor ==
    (query.pc = "done" /\ query.resumed # <<>> /\ query.offset = 0)
        => LET page == query.resumed[1]
               last == page.items[Len(page.items)]
               hi == IF query.limit # -1
                     THEN Min(query.total, last + query.limit) ELSE query.total
           IN Entities(query.pages) = Results(last + 1, hi)

\* C19: a finished run of a query with an offset and no limit has yielded
\* every entity after the first offset ones, in order.
C19_OffsetSkipsOnce ==
    (query.pc = "done" /\ query.resumed = <<>> /\ query.limit = -1 /\ query.mode = "run")
        => Entities(query.pages) = Results(query.offset + 1, query.total)

(***************************************************************************)
(* SpecProperty: one call of a method of a property of anom.properties.    *)
(* A repeated Embed is stored for a list of entities 1..n of an embedded   *)
(* model with the fields 1..m, the value of field j of entity i being      *)
(* <<i, j>>.  Python's bool is an int: True is 1 and False is 0.           *)
(* validate is called on None, on a value of one of the property's _types  *)
(* ("typed"), on a value of another type ("other") or on a list; a str is  *)
(* a number of characters that each encode to width bytes.                 *)
(***************************************************************************)
MaxEntities == 3
MaxFields == 3
MaxIndexedLength == 1500
MaxExcess == 2
MaxCharBytes == 2

\* The property classes of anom.properties other than Computed, and the
\* ones whose constructor accepts indexed=True.
PropertyTypes ==
    {"Bool", "Bytes", "DateTime", "Float", "Integer", "Json", "Key", "Msgpack",
     "String", "Text", "Embed"}
Indexable == {"Bool", "DateTime", "Float", "Integer", "Key", "String"}

\* Property.validate: what is returned ("typed", "None" or "list" for the
\* value itself), or the exception raised.  A list is accepted by a repeated
\* property when every element is of _types, the empty list included.
BaseValidate(decl, value) ==
    IF value.kind = "typed" THEN "typed"
    ELSE IF decl.optional /\ value.kind = "None" THEN "None"
    ELSE IF decl.repeated /\ value.kind = "list" /\ value.elems \in {"empty", "typed"}
    THEN "list"
    ELSE "TypeError"

\* String.validate with String._validate_length: len(None) raises
\* TypeError, and a str fails when both its number of characters and its
\* encoded length exceed _max_indexed_length.
StringValidate(decl, value) ==
    LET validated == BaseValidate(decl, value)
    IN IF validated = "TypeError" \/ ~decl.indexed \/ decl.repeated THEN validated
       ELSE IF validated = "None" THEN "TypeError"
       ELSE IF /\ value.chars > MaxIndexedLength
               /\ value.chars * value.width > MaxIndexedLength
            THEN "ValueError"
            ELSE validated

\* Key.validate on one key or entity: an entity is replaced by its key
\* ("key"), a partial key and a key of another kind than the property's
\* raise ValueError.
KeyValidateOne(decl, value) ==
    IF value.partial THEN "ValueError"
    ELSE IF decl.kinded /\ ~value.samekind THEN "ValueError"
    ELSE IF value.what = "entity" THEN "key"
    ELSE "typed"

\* Key.validate: Property.validate, then each element of a list given to a
\* repeated property, or the value itself, is turned into a full key.
KeyValidate(decl, value) ==
    LET validated == BaseValidate(decl, value)
    IN IF validated \in {"TypeError", "None"} THEN validated
       ELSE IF validated = "list"
       THEN IF value.elems = "empty" THEN "list"
            ELSE IF KeyValidateOne(decl, value) = "ValueError" THEN "ValueError"
            ELSE IF KeyValidateOne(decl, value) = "key" THEN "list of keys"
            ELSE "list"
       ELSE KeyValidateOne(decl, value)

\* DateTime.validate as a property method: Property.validate, then
\* value.tzinfo is read of everything but None, which a list lacks.
DateTimeValidateAny(decl, value) ==
    LET validated == BaseValidate(decl, value)
    IN IF validated = "list" THEN "AttributeError" ELSE validated

\* Embed.validate: a repeated Embed iterates over the value and wants
\* every element to be an instance of the embedded model; iterating over
\* an entity yields its prepared properties (value.iter tells what the
\* first one does), iterating over None or a number raises TypeError.
EmbedValidate(decl, value) ==
    IF decl.optional /\ value.kind = "None" THEN "None"
    ELSE IF decl.repeated
    THEN CASE value.kind = "list" ->
                 IF value.elems \in {"empty", "typed"} THEN "list" ELSE "TypeError"
           [] value.kind = "typed" ->
                 IF value.iter = "empty" THEN "typed"
                 ELSE IF value.iter = "raises" THEN "RuntimeError"
                 ELSE "TypeError"
           [] OTHER -> "TypeError"
    ELSE IF value.kind = "typed" THEN "typed"
    ELSE "TypeError"

\* prop.validate(value) for a property of the declared class: DateTime,
\* Key, String and Embed override Property.validate.
Validate(decl, value) ==
    CASE decl.ptype = "String" -> StringValidate(decl, value)
      [] decl.ptype = "Key" -> KeyValidate(decl, value)
      [] decl.ptype = "DateTime" -> DateTimeValidateAny(decl, value)
      [] decl.ptype = "Embed" -> EmbedValidate(decl, value)
      [] OTHER -> BaseValidate(decl, value)

\* functools.reduce(operator.eq, lens) for a sequence of at least one
\* length, starting from its first element.
RECURSIVE ReduceEq(_, _)
ReduceEq(acc, lens) ==
    IF lens = <<>> THEN acc
    ELSE ReduceEq(IF acc = Head(lens) THEN 1 ELSE 0, Tail(lens))

\* Embed._prepare_to_store_repeated_properties: the dict of the dotted
\* names to the lists of values, then the check of the lengths.
PrepareToStoreRepeated(n, m) ==
    LET properties == IF n = 0 THEN <<>>
                      ELSE [j \in 1..m |-> [i \in 1..n |-> <<i, j>>]]
        lens == [j \in 1..Len(properties) |-> Len(properties[j])]
    IN IF lens = <<>> THEN [outcome |-> "TypeError", fields |-> <<>>]
       ELSE IF ReduceEq(Head(lens), Tail(lens)) = 0
            THEN [outcome |-> "ValueError", fields |-> <<>>]
            ELSE [outcome |-> "stored", fields |-> properties]

\* No method has been called.
InitProperty ==
    /\ AdapterIdle
    /\ keyst = <<>> /\ registry = <<>> /\ ent = <<>> /\ query = <<>>
    /\ dtst = <<>> /\ nsst = <<>> /\ adst = <<>>
    /\ propcall = [op |-> "none"]

\* list(embed.prepare_to_store(entity, entities)) for a repeated Embed.
StoreRepeatedEmbed ==
    /\ propcall.op = "none"
    /\ \E n \in 0..MaxEntities, m \in 1..MaxFields :
          propcall' = [op |-> "store_embed", n |-> n, m |-> m,
                       result |-> PrepareToStoreRepeated(n, m)]
    /\ UNCHANGED <<adapterVars, keyst, registry, ent, query, dtst, nsst, adst>>

\* The values validate is called on: None, a value of one of the
\* property's _types, a value of another type that is no container, and a
\* list that is empty, holds values of _types only, or holds a value of
\* another type.  What matters of a typed value (and of the typed elements
\* of a list) depends on the class: the length of a str, whether a Key or
\* the key of an entity is partial and of the property's kind, what the
\* iteration over an embedded entity starts with.
PropertyValues(ptype) ==
    LET Plain(kind, elems) ==
            [kind |-> kind, elems |-> elems, chars |-> 0, width |-> 1,
             what |-> "", partial |-> FALSE, samekind |-> TRUE, iter |-> ""]
        Typed == {Plain("typed", ""), Plain("list", "typed")}
    IN {Plain("None", ""), Plain("other", ""), Plain("list", "empty"),
        Plain("list", "other")}
       \cup
       CASE ptype = "String" ->
                {[Plain("typed", "") EXCEPT !.chars = chars, !.width = width] :
                     chars \in 0..(MaxIndexedLength + MaxExcess),
                     width \in 1..MaxCharBytes}
                \cup {Plain("list", "typed")}
         [] ptype = "Key" ->
                {[v EXCEPT !.what = what, !.partial = partial, !.samekind = samekind] :
                     v \in Typed, what \in {"key", "entity"},
                     partial \in BOOLEAN, samekind \in BOOLEAN}
         [] ptype = "Embed" ->
                {[Plain("typed", "") EXCEPT !.iter = iter] :
                     iter \in {"empty", "value", "raises"}}
                \cup {Plain("list", "typed")}
         [] OTHER -> Typed

\* prop.validate(value) for a property of any class and options.
ValidateValue ==
    /\ propcall.op = "none"
    /\ \E ptype \in PropertyTypes, optional \in BOOLEAN, indexed \in BOOLEAN,
          repeated \in BOOLEAN, kinded \in BOOLEAN :
          /\ indexed => ptype \in Indexable
          /\ kinded => ptype = "Key"
          /\ \E value \in PropertyValues(ptype) :
                LET decl == [ptype |-> ptype, optional |-> optional,
                             indexed |-> indexed, repeated |-> repeated,
                             kinded |-> kinded]
                IN propcall' = [op |-> "validate", decl |-> decl, value |-> value,
                                result |-> Validate(decl, value)]
    /\ UNCHANGED <<adapterVars, keyst, registry, ent, query, dtst, nsst, adst>>

SpecProperty == InitProperty /\ [][StoreRepeatedEmbed \/ ValidateValue]_vars

\* C21: storing a repeated Embed of n entities with m fields succeeds and
\* yields m names, each with a list of n values, the i-th from the i-th
\* entity.
C21_RepeatedEmbedColumns ==
    propcall.op = "store_embed" =>
        /\ propcall.result.outcome = "stored"
        /\ Len(propcall.result.fields) = propcall.m
        /\ \A j \in 1..Len(propcall.result.fields) :
              propcall.result.fields[j] = [i \in 1..propcall.n |-> <<i, j>>]

\* C22: validate(None) returns None for a property declared optional and
\* raises TypeError for a property that is not, whatever the class and the
\* other options of the property.
C22_OptionalAcceptsNone ==
    (propcall.op = "validate" /\ propcall.value.kind = "None")
        => propcall.result = (IF propcall.decl.optional THEN "None" ELSE "TypeError")

\* C23: an indexed String accepts a str exactly when it encodes to at most
\* 1500 bytes, and a String that is not indexed accepts every str.
C23_IndexedStringLength ==
    (/\ propcall.op = "validate"
     /\ propcall.decl.ptype = "String" /\ ~propcall.decl.repeated
     /\ propcall.value.kind = "typed")
        => propcall.result =
              (IF /\ propcall.decl.indexed
                  /\ propcall.value.chars * propcall.value.width > MaxIndexedLength
               THEN "ValueError" ELSE "typed")

(***************************************************************************)
(* SpecNamespace: anom.namespaces in two threads.  current[t] is the       *)
(* attribute _namespace.current of thread t, Unset when the thread-local   *)
(* object lacks it (the value None of the context manager's saved          *)
(* namespace).  contexts[t] holds the namespace(...) contexts thread t is  *)
(* inside, innermost last, each with the namespace it saved (saved) and    *)
(* what current[t] was when it was entered (entry).                        *)
(***************************************************************************)
MaxContexts == 2
MaxNamespaceCalls == 4

NsThreads == {"main", "worker"}
Namespaces == {"", "foo", "bar"}
Unset == "<unset>"

\* get_namespace() in thread t.
GetNamespace(t) ==
    IF nsst.current[t] # Unset THEN nsst.current[t] ELSE nsst.default

\* set_namespace(namespace) had it kept the attribute for None.
SetNamespace_Keep(current, namespace) ==
    IF namespace = Unset THEN current ELSE namespace

\* set_namespace(namespace): the attribute of the calling thread after the
\* call, deleted for None.
SetNamespace(current, namespace) ==
    IF namespace = Unset THEN Unset ELSE namespace

\* The state after thread t called op, current[t] becoming value.
AfterCall(t, op, value, contexts) ==
    [nsst EXCEPT !.current[t] = value, !.contexts[t] = contexts,
                 !.calls = @ + 1,
                 !.last = [op |-> op, thread |-> t, namespace |-> value,
                           entry |-> IF op = "exit"
                                     THEN nsst.contexts[t][Len(nsst.contexts[t])].entry
                                     ELSE Unset]]

\* The module as imported: the default namespace is "".
InitNamespace ==
    /\ AdapterIdle
    /\ keyst = <<>> /\ registry = <<>> /\ ent = <<>> /\ query = <<>>
    /\ propcall = <<>> /\ dtst = <<>> /\ adst = <<>>
    /\ nsst = [default |-> "", current |-> [t \in NsThreads |-> Unset],
               contexts |-> [t \in NsThreads |-> <<>>], calls |-> 0,
               last |-> [op |-> "none", thread |-> "main", namespace |-> Unset,
                         entry |-> Unset]]

\* set_default_namespace(namespace)
SetDefaultNamespace ==
    /\ nsst.calls < MaxNamespaceCalls
    /\ \E namespace \in Namespaces, t \in NsThreads :
          nsst' = [nsst EXCEPT !.default = namespace, !.calls = @ + 1,
                               !.last = [op |-> "set_default", thread |-> t,
                                         namespace |-> namespace, entry |-> Unset]]
    /\ UNCHANGED <<adapterVars, keyst, registry, ent, query, propcall, dtst, adst>>

\* set_namespace(namespace) in thread t, namespace being None or a str.
SetThreadNamespace ==
    /\ nsst.calls < MaxNamespaceCalls
    /\ \E t \in NsThreads, namespace \in Namespaces \cup {Unset} :
          nsst' = AfterCall(t, "set", SetNamespace(nsst.current[t], namespace),
                            nsst.contexts[t])
    /\ UNCHANGED <<adapterVars, keyst, registry, ent, query, propcall, dtst, adst>>

\* with namespace(ns): up to the yield, in thread t.
EnterNamespace ==
    /\ nsst.calls < MaxNamespaceCalls
    /\ \E t \in NsThreads, namespace \in Namespaces :
          /\ Len(nsst.contexts[t]) < MaxContexts
          /\ nsst' = AfterCall(t, "enter", SetNamespace(nsst.current[t], namespace),
                               Append(nsst.contexts[t],
                                      [namespace |-> namespace,
                                       saved |-> nsst.current[t],
                                       entry |-> nsst.current[t]]))
    /\ UNCHANGED <<adapterVars, keyst, registry, ent, query, propcall, dtst, adst>>

\* The finally clause of the innermost namespace(...) context of thread t,
\* reached when its block returns or raises.
ExitNamespace ==
    /\ nsst.calls < MaxNamespaceCalls
    /\ \E t \in NsThreads :
          /\ nsst.contexts[t] # <<>>
          /\ LET context == nsst.contexts[t][Len(nsst.contexts[t])]
             IN nsst' = AfterCall(t, "exit", SetNamespace(nsst.current[t], context.saved),
                                  SubSeq(nsst.contexts[t], 1, Len(nsst.contexts[t]) - 1))
    /\ UNCHANGED <<adapterVars, keyst, registry, ent, query, propcall, dtst, adst>>

SpecNamespace ==
    InitNamespace /\ [][SetDefaultNamespace \/ SetThreadNamespace
                        \/ EnterNamespace \/ ExitNamespace]_vars

\* The last call left get_namespace() as it should: the namespace of the
\* context just entered, or on exit the thread's namespace as it was on
\* entry (the default when it was unset).
C24_EnterAndExit ==
    /\ nsst.last.op = "enter" => GetNamespace(nsst.last.thread) = nsst.last.namespace
    /\ nsst.last.op = "exit" =>
          /\ nsst.current[nsst.last.thread] = nsst.last.entry
          /\ nsst.last.entry = Unset => GetNamespace(nsst.last.thread) = nsst.default

\* A call that enters or leaves a context or sets the thread-local
\* namespace leaves get_namespace() of every other thread as it was.
C24_OtherThreadsUntouched ==
    \A t \in NsThreads :
        (nsst'.last.thread # t /\ nsst'.last.op # "set_default")
            => (IF nsst'.current[t] # Unset THEN nsst'.current[t] ELSE nsst'.default)
                  = GetNamespace(t)

\* C24: namespace(...) contexts stack per thread: inside a context
\* get_namespace() returns its namespace, leaving it restores the thread's
\* namespace to what it was on entry (the global default if none was set),
\* and no thread changes what get_namespace() returns in another thread by
\* entering or leaving a context or setting its thread-local namespace.
C24_NamespacesStackPerThread ==
    [](C24_EnterAndExit) /\ [][C24_OtherThreadsUntouched]_vars

\* A thread left the inner of two stacked contexts entered with no
\* thread-local namespace set, while the other thread is inside a context.
C24_Witness ==
    /\ nsst.last.op = "exit"
    /\ Len(nsst.contexts[nsst.last.thread]) = 1
    /\ nsst.contexts[nsst.last.thread][1].entry = Unset
    /\ nsst.current[nsst.last.thread] = nsst.contexts[nsst.last.thread][1].namespace
    /\ \E t \in NsThreads : t # nsst.last.thread /\ nsst.current[t] # Unset

(***************************************************************************)
(* SpecAdapters: the global adapter (adapter.py), a function decorated by  *)
(* transactional() (transaction.py) and the transactions of the            *)
(* DatastoreAdapter instances of one thread (datastore_adapter.py).        *)
(*                                                                         *)
(* adst.global       the module variable _adapter, NoAdapter for None      *)
(* adst.cell[fn]     the closure variable `adapter` of the decorator of    *)
(*                   the decorated function fn                             *)
(* adst.explicit[fn] whether that decorator was given an adapter           *)
(* adst.propagation[fn]  that decorator's propagation argument             *)
(* adst.transactions DatastoreAdapter._state.transactions of the thread;   *)
(*                   _state is an attribute of the class.  A transaction   *)
(*                   object has an identity (id); an outer one holds a     *)
(*                   datastore transaction (ds, begun), an inner one its   *)
(*                   parent (the id of that object)                        *)
(* adst.openers      for each transaction of adst.transactions, who        *)
(*                   requested it: a decorated function, or Application    *)
(* adst.batches      the batch stack of the datastore client of the        *)
(*                   thread (_state.client), one datastore transaction per *)
(*                   begin() of an outer transaction; _pop_batch() raises  *)
(*                   IndexError when it is empty                           *)
(* adst.running      the calls of decorated functions whose body is        *)
(*                   running, innermost last, each with the id of the      *)
(*                   transaction of its current attempt                    *)
(* adst.last         what the last operation did                           *)
(*                                                                         *)
(* The application calls begin() and end() on the current transaction      *)
(* only, only when it requested that transaction itself, and begin() at    *)
(* most once.                                                              *)
(***************************************************************************)
MaxOpen == 2

Instances == {"X", "Y"}

DefaultInstance == "default"

NoAdapter == "none"

\* The decorated functions, and the opener of a transaction that a call of
\* adapter.transaction() by the application requested.
Decorated == {"f", "g"}

Application == "application"

\* get_adapter(): the pair <<adapter returned, _adapter afterwards>>.
GetAdapter(global) ==
    IF global = NoAdapter THEN <<DefaultInstance, DefaultInstance>>
    ELSE <<global, global>>

\* DatastoreAdapter.in_transaction on instance i: bool(self._transactions).
InstanceInTransaction(transactions, i) == Len(transactions) > 0

\* The identity of a new transaction object: one that no object on the
\* stack, no parent or datastore transaction of one and no batch of the
\* client carries.
NewId(a) ==
    LET used == {a.transactions[n].id : n \in 1..Len(a.transactions)}
                \cup {a.transactions[n].parent : n \in 1..Len(a.transactions)}
                \cup {a.transactions[n].ds : n \in 1..Len(a.transactions)}
                \cup {a.batches[n] : n \in 1..Len(a.batches)}
    IN CHOOSE id \in 1..(Cardinality(used) + 1) : id \notin used

\* DatastoreAdapter.transaction(propagation) on instance i: the transaction
\* object it creates, with identity id.  An outer transaction belongs to i
\* and holds a new datastore transaction; an inner one takes adapter and
\* datastore transaction from its parent, the current transaction.
AdapterTransaction(transactions, i, propagation, id) ==
    IF propagation = "Independent" \/ Len(transactions) = 0
    THEN [id |-> id, kind |-> "outer", requester |-> i, adapter |-> i,
          ds |-> id, parent |-> 0, begun |-> FALSE]
    ELSE [id |-> id, kind |-> "inner", requester |-> i,
          adapter |-> transactions[Len(transactions)].adapter,
          ds |-> transactions[Len(transactions)].ds,
          parent |-> transactions[Len(transactions)].id, begun |-> FALSE]

\* list.remove(self): the sequence without its n-th element.
RemoveAt(seq, n) == SubSeq(seq, 1, n - 1) \o SubSeq(seq, n + 1, Len(seq))

\* The position of the transaction object id on the stack.
PositionOf(transactions, id) ==
    CHOOSE n \in 1..Len(transactions) : transactions[n].id = id

\* transaction.begin() on the n-th transaction of the stack: an outer
\* transaction begins its datastore transaction and pushes it on the
\* client's batch stack, an inner one does nothing.
Begin(a, n) ==
    IF a.transactions[n].kind = "outer"
    THEN [a EXCEPT !.transactions[n].begun = TRUE,
                   !.batches = Append(@, a.transactions[n].ds)]
    ELSE a

\* Whether transaction.end() on the n-th transaction raises IndexError:
\* an outer transaction pops the client's batch stack first.
EndRaises(a, n) == a.transactions[n].kind = "outer" /\ a.batches = <<>>

\* transaction.end() on the n-th transaction of the stack: an outer
\* transaction pops the client's batch stack, whatever is on top of it,
\* and then removes itself from the stack; an inner one removes itself.
\* When the pop raises, the transaction stays where it is.
End(a, n) ==
    IF EndRaises(a, n) THEN a
    ELSE [a EXCEPT !.transactions = RemoveAt(@, n),
                   !.openers = RemoveAt(@, n),
                   !.batches = IF a.transactions[n].kind = "outer"
                               THEN SubSeq(@, 1, Len(@) - 1) ELSE @]

InitAdapters ==
    /\ AdapterIdle
    /\ keyst = <<>> /\ registry = <<>> /\ ent = <<>> /\ query = <<>>
    /\ propcall = <<>> /\ dtst = <<>> /\ nsst = <<>>
    /\ \E given \in [Decorated -> Instances \cup {NoAdapter}],
          p \in [Decorated -> Propagations] :
         adst = [global |-> NoAdapter, cell |-> given,
                 explicit |-> [fn \in Decorated |-> given[fn] # NoAdapter],
                 propagation |-> p,
                 transactions |-> <<>>, openers |-> <<>>, batches |-> <<>>,
                 running |-> <<>>,
                 last |-> [op |-> "none"]]

\* set_adapter(a)
SetAdapter ==
    \E a \in Instances :
        /\ adst' = [adst EXCEPT !.global = a,
                                !.last = [op |-> "set_adapter", adapter |-> a]]
        /\ UNCHANGED <<adapterVars, keyst, registry, ent, query, propcall, dtst, nsst>>

\* get_adapter() called by the application: with no global adapter set it
\* makes a new DatastoreAdapter the global one.
CallGetAdapter ==
    /\ adst' = [adst EXCEPT !.global = GetAdapter(adst.global)[2],
                            !.last = [op |-> "get_adapter",
                                      adapter |-> GetAdapter(adst.global)[1]]]
    /\ UNCHANGED <<adapterVars, keyst, registry, ent, query, propcall, dtst, nsst>>

\* A call of the decorated function fn, by the application or by the body
\* of a decorated function, up to the start of fn's body: inner() assigns
\* the closure variable, asks that adapter for a transaction and begins
\* it.  The body then runs with the transaction on the stack.
CallTransactional ==
    \E fn \in Decorated :
        /\ Len(adst.transactions) < MaxOpen
        /\ LET got  == GetAdapter(adst.global)
               used == IF adst.cell[fn] # NoAdapter THEN adst.cell[fn] ELSE got[1]
               glob == IF adst.cell[fn] # NoAdapter THEN adst.global ELSE got[2]
               tx   == AdapterTransaction(adst.transactions, used,
                                          adst.propagation[fn], NewId(adst))
               open == [adst EXCEPT !.transactions = Append(@, tx),
                                    !.openers = Append(@, fn)]
               begun == Begin(open, Len(open.transactions))
           IN adst' = [begun EXCEPT
                 !.cell[fn] = used,
                 !.global = glob,
                 !.running = Append(@, [fn |-> fn, tx |-> tx.id]),
                 !.last = [op |-> "call", fn |-> fn, used |-> used,
                           current |-> GetAdapter(adst.global)[1],
                           transaction |-> begun.transactions[Len(begun.transactions)],
                           in_transaction |->
                               InstanceInTransaction(begun.transactions, used)]]
        /\ UNCHANGED <<adapterVars, keyst, registry, ent, query, propcall, dtst, nsst>>

\* The innermost running call leaves inner() with an exception raised by
\* transaction.end() in its finally clause; its transaction stays on the
\* stack.
LeftByEnd(a, fn) ==
    [a EXCEPT !.running = SubSeq(@, 1, Len(@) - 1),
              !.last = [op |-> "return", fn |-> fn, outcome |-> "raised",
                        exception |-> "IndexError"]]

\* The commit of the innermost running call fails with TransactionFailed
\* and attempts remain: the finally clause ends the transaction, the next
\* iteration asks the bound adapter for a new one, begins it, and the body
\* runs again.  Only the commit of an outer transaction reaches the
\* datastore.
RetryTransactional ==
    /\ Len(adst.running) > 0
    /\ LET inner  == adst.running[Len(adst.running)]
           n     == PositionOf(adst.transactions, inner.tx)
           ended == End(adst, n)
           tx    == AdapterTransaction(ended.transactions, adst.cell[inner.fn],
                                       adst.propagation[inner.fn], NewId(ended))
           open  == [ended EXCEPT !.transactions = Append(@, tx),
                                  !.openers = Append(@, inner.fn)]
           begun == Begin(open, Len(open.transactions))
       IN /\ adst.transactions[n].kind = "outer"
          /\ adst' = IF EndRaises(adst, n) THEN LeftByEnd(adst, inner.fn)
                     ELSE [begun EXCEPT
                             !.running[Len(adst.running)].tx = tx.id,
                             !.last = [op |-> "retry", fn |-> inner.fn,
                                       transaction |->
                                           begun.transactions[Len(begun.transactions)]]]
    /\ UNCHANGED <<adapterVars, keyst, registry, ent, query, propcall, dtst, nsst>>

\* The innermost running inner ends: its body returned and the commit
\* succeeded, its body raised, or the commit failed with no attempt left.
\* The finally clause ends the inner's transaction in each case, and an
\* exception it raises is the one that leaves inner().  The number of
\* attempts is the subject of SpecTxn; here the outcome is an input.
ReturnTransactional ==
    \E outcome \in {"returned", "raised", "retries_exceeded"} :
        /\ Len(adst.running) > 0
        /\ LET inner == adst.running[Len(adst.running)]
               n    == PositionOf(adst.transactions, inner.tx)
           IN /\ outcome = "retries_exceeded" => adst.transactions[n].kind = "outer"
              /\ adst' = IF EndRaises(adst, n) THEN LeftByEnd(adst, inner.fn)
                         ELSE [End(adst, n) EXCEPT
                                 !.running = SubSeq(@, 1, Len(@) - 1),
                                 !.last = [op |-> "return", fn |-> inner.fn,
                                           outcome |-> outcome,
                                           exception |->
                                               CASE outcome = "raised" -> "Exception"
                                                 [] outcome = "retries_exceeded" -> "RetriesExceeded"
                                                 [] OTHER -> ""]]
        /\ UNCHANGED <<adapterVars, keyst, registry, ent, query, propcall, dtst, nsst>>

\* i.transaction(propagation) by the application or by the body of a
\* decorated function: the transaction is on the stack, not begun.
OpenTransaction ==
    \E i \in Instances, p \in Propagations :
        /\ Len(adst.transactions) < MaxOpen
        /\ LET tx == AdapterTransaction(adst.transactions, i, p, NewId(adst))
           IN adst' = [adst EXCEPT
                 !.transactions = Append(@, tx),
                 !.openers = Append(@, Application),
                 !.last = [op |-> "transaction", instance |-> i,
                           propagation |-> p, transaction |-> tx,
                           was_in_transaction |->
                               [j \in Instances |-> InstanceInTransaction(adst.transactions, j)]]]
        /\ UNCHANGED <<adapterVars, keyst, registry, ent, query, propcall, dtst, nsst>>

\* Transaction.begin() of the current transaction, by the application or
\* by the body of a decorated function that requested it.
BeginTransaction ==
    /\ Len(adst.transactions) > 0
    /\ adst.openers[Len(adst.openers)] = Application
    /\ ~adst.transactions[Len(adst.transactions)].begun
    /\ adst' = [Begin(adst, Len(adst.transactions)) EXCEPT !.last = [op |-> "begin"]]
    /\ UNCHANGED <<adapterVars, keyst, registry, ent, query, propcall, dtst, nsst>>

\* Transaction.end() of the current transaction, by the application or by
\* the body of a decorated function that requested it.
EndTransaction ==
    /\ Len(adst.transactions) > 0
    /\ adst.openers[Len(adst.openers)] = Application
    /\ adst' = [End(adst, Len(adst.transactions)) EXCEPT
          !.last = [op |-> "end",
                    exception |-> IF EndRaises(adst, Len(adst.transactions))
                                  THEN "IndexError" ELSE ""]]
    /\ UNCHANGED <<adapterVars, keyst, registry, ent, query, propcall, dtst, nsst>>

SpecAdapters ==
    InitAdapters /\ [][SetAdapter \/ CallGetAdapter \/ CallTransactional
                       \/ RetryTransactional \/ ReturnTransactional
                       \/ OpenTransaction \/ BeginTransaction
                       \/ EndTransaction]_vars

\* C25: a function decorated with transactional() without an adapter runs
\* each call in a transaction of the adapter that get_adapter() returns at
\* the time of that call.
C25_CallUsesCurrentAdapter ==
    (adst # <<>> /\ adst.last.op = "call" /\ ~adst.explicit[adst.last.fn])
        => /\ adst.last.used = adst.last.current
           /\ adst.last.transaction.requester = adst.last.current

\* C28: transaction stacks are per adapter instance: an instance reports
\* in_transaction only when one of the open transactions was requested on
\* it, and a Nested transaction requested on an instance joins only a
\* transaction of that instance, otherwise it begins a new datastore
\* transaction.
C28_StacksPerInstance ==
    adst # <<>> =>
        /\ \A i \in Instances :
             InstanceInTransaction(adst.transactions, i)
                 <=> \E n \in 1..Len(adst.transactions) :
                        adst.transactions[n].requester = i
        /\ \A n, m \in 1..Len(adst.transactions) :
             (/\ adst.transactions[n].kind = "inner"
              /\ adst.transactions[n].parent = adst.transactions[m].id)
                 => adst.transactions[m].requester = adst.transactions[n].requester

(***************************************************************************)
(* SpecDateTime: one entity with one DateTime property, put again and      *)
(* again while the clock advances (properties.py DateTime, model.py        *)
(* Property).  A datetime is an instant and the timezone it is expressed   *)
(* in; "naive" has no timezone.                                            *)
(*                                                                         *)
(* dtst.prop     the property's options                                    *)
(* dtst.data     entity._data[name]: DtMissing, DtNone or a datetime       *)
(* dtst.stamped  whether dtst.data was written by prepare_to_store from    *)
(*               the clock                                                 *)
(* dtst.clock    the current time                                          *)
(* dtst.last     what the last operation did                               *)
(***************************************************************************)
MaxClock == 3

Instants == 1..MaxClock

Zones == {"naive", "local", "utc"}

DtNone == [instant |-> 0, tz |-> "None"]

DtMissing == [instant |-> 0, tz |-> "NotFound"]

DateTimes == [instant : Instants, tz : Zones]

\* DateTime._current_value(): datetime.now(tz.tzlocal())
CurrentValue(clock) == [instant |-> clock, tz |-> "local"]

\* value.astimezone(tz.tzutc()): the same instant, expressed in UTC.
AsTimezoneUtc(value) == [value EXCEPT !.tz = "utc"]

\* DateTime.validate(value): the value assigned, or "TypeError".  A naive
\* datetime gets the local timezone.
DateTimeValidate(p, value) ==
    IF value = DtNone
    THEN (IF p.optional THEN [raised |-> "", value |-> DtNone]
          ELSE [raised |-> "TypeError", value |-> DtNone])
    ELSE IF value.tz = "naive"
    THEN [raised |-> "", value |-> [value EXCEPT !.tz = "local"]]
    ELSE [raised |-> "", value |-> value]

\* Property.__get__: the value in _data, the default when the name is
\* missing and a default was declared, otherwise None.
DateTimeGet(p, data) ==
    IF data = DtMissing THEN p.default ELSE data

\* A variant that takes the current time whenever one of the two options
\* is set.
DateTimePrepareToStore_AlwaysNow(p, data, clock) ==
    LET value == DateTimeGet(p, data)
        auto  == p.auto_now_add \/ p.auto_now
        v1    == IF auto THEN CurrentValue(clock) ELSE value
        v2    == IF v1 # DtNone THEN AsTimezoneUtc(v1) ELSE v1
    IN [data    |-> IF v2 # DtNone THEN v2 ELSE data,
        stamped |-> auto,
        raised  |-> IF v2 = DtNone /\ ~p.optional THEN "RuntimeError" ELSE "",
        value   |-> v2]

\* DateTime.prepare_to_store(entity, getattr(entity, name)): what it leaves
\* in entity._data, whether the value came from the clock, what it raises
\* and the value it returns.
DateTimePrepareToStore(p, data, clock) ==
    LET value == DateTimeGet(p, data)
        auto  == (value = DtNone /\ p.auto_now_add) \/ p.auto_now
        v1    == IF auto THEN CurrentValue(clock) ELSE value
        v2    == IF v1 # DtNone THEN AsTimezoneUtc(v1) ELSE v1
    IN [data    |-> IF v2 # DtNone THEN v2 ELSE data,
        stamped |-> auto,
        raised  |-> IF v2 = DtNone /\ ~p.optional THEN "RuntimeError" ELSE "",
        value   |-> v2]

\* A new entity of a model whose DateTime property was declared with any
\* combination of the options; nothing was assigned yet.
InitDateTime ==
    /\ AdapterIdle
    /\ keyst = <<>> /\ registry = <<>> /\ ent = <<>> /\ query = <<>>
    /\ propcall = <<>> /\ nsst = <<>> /\ adst = <<>>
    /\ \E add \in BOOLEAN, now \in BOOLEAN, opt \in BOOLEAN,
          def \in {DtNone, [instant |-> 1, tz |-> "utc"]} :
         dtst = [prop |-> [auto_now_add |-> add, auto_now |-> now,
                           optional |-> opt, default |-> def],
                 data |-> DtMissing, stamped |-> FALSE, clock |-> 1,
                 last |-> [op |-> "none"]]

\* Time passes.
Tick ==
    /\ dtst.clock < MaxClock
    /\ dtst' = [dtst EXCEPT !.clock = @ + 1, !.last = [op |-> "tick"]]
    /\ UNCHANGED <<adapterVars, keyst, registry, ent, query, propcall, nsst, adst>>

\* entity.prop = value (Property.__set__)
AssignDateTime ==
    \E value \in DateTimes \cup {DtNone} :
        LET v == DateTimeValidate(dtst.prop, value)
        IN /\ dtst' = [dtst EXCEPT
                 !.data = IF v.raised = "" THEN v.value ELSE @,
                 !.stamped = IF v.raised = "" THEN FALSE ELSE @,
                 !.last = [op |-> "assign", raised |-> v.raised]]
           /\ UNCHANGED <<adapterVars, keyst, registry, ent, query, propcall, nsst, adst>>

\* entity.put(): the property is prepared for storage.
PutDateTime ==
    LET r == DateTimePrepareToStore(dtst.prop, dtst.data, dtst.clock)
    IN /\ dtst' = [dtst EXCEPT
             !.data = r.data,
             !.stamped = IF r.value # DtNone THEN r.stamped ELSE @,
             !.last = [op |-> "put", raised |-> r.raised,
                       before |-> DateTimeGet(dtst.prop, dtst.data),
                       was_stamped |-> dtst.stamped,
                       stored |-> r.value, now |-> dtst.clock]]
       /\ UNCHANGED <<adapterVars, keyst, registry, ent, query, propcall, nsst, adst>>

SpecDateTime == InitDateTime /\ [][Tick \/ AssignDateTime \/ PutDateTime]_vars

\* C29: a put of an entity whose DateTime property has auto_now_add (and
\* not auto_now) stores the current time when the property has no value
\* and otherwise the instant it already holds; a put of one with auto_now
\* stores the current time whatever the property held.  The entity keeps
\* what was stored.
C29_AutoNowAddOnceAutoNowAlways ==
    (dtst # <<>> /\ dtst.last.op = "put") =>
        /\ (dtst.prop.auto_now_add /\ ~dtst.prop.auto_now) =>
              /\ dtst.last.raised = ""
              /\ dtst.last.stored.instant =
                    (IF dtst.last.before = DtNone THEN dtst.last.now
                     ELSE dtst.last.before.instant)
              /\ dtst.data = dtst.last.stored
        /\ dtst.prop.auto_now =>
              /\ dtst.last.raised = ""
              /\ dtst.last.stored.instant = dtst.last.now
              /\ dtst.data = dtst.last.stored

\* A later put, at a later time, of an auto_now_add property that an
\* earlier put had stamped.
C29_Witness ==
    /\ dtst # <<>>
    /\ dtst.last.op = "put"
    /\ dtst.prop.auto_now_add /\ ~dtst.prop.auto_now
    /\ dtst.last.was_stamped
    /\ dtst.last.stored.instant < dtst.last.now

(***************************************************************************)
(* SpecCacheCalls: the calls of SpecCache, at most MaxConcurrent of them   *)
(* in one race.  SpecCacheFair adds that a thread inside get_multi keeps   *)
(* running: its next call to memcached or to the backing adapter is always *)
(* possible, whatever the other threads do.                                *)
(***************************************************************************)
MaxConcurrent == 3

\* The calls made so far.
Started == Cardinality({p \in Procs : pc[p] # "idle"})

\* The next call of a thread inside get_multi.
ReaderStep(r) == GetFromStore(r) \/ CacheGets(r) \/ CacheAdd(r) \/ CacheCas(r)

\* A put_multi or delete_multi call starts.
StartWrite(w) == Started < MaxConcurrent /\ BustLock(w)

\* A get_multi call starts.
StartRead(r) == Started < MaxConcurrent /\ GetFromCache(r)

NextCacheCalls ==
    \/ \E w \in Writers : StartWrite(w)
    \/ \E w \in Writers : BackingWrite(w)
    \/ \E w \in Writers : BustDelete(w)
    \/ \E r \in Readers : StartRead(r)
    \/ \E r \in Readers : GetFromStore(r)
    \/ \E r \in Readers : CacheGets(r)
    \/ \E r \in Readers : CacheAdd(r)
    \/ \E r \in Readers : CacheCas(r)

SpecCacheCalls == InitCache /\ [][NextCacheCalls]_vars

SpecCacheFair ==
    SpecCacheCalls /\ \A r \in Readers : WF_vars(ReaderStep(r))

\* A step of reader r that finds somebody else's lock placeholder under the
\* key leaves the cache entry as it is, and when the step is the gets of
\* _cache the call returns.
C26_Step ==
    \A r \in Readers :
        (pc'[r] # pc[r] /\ ForeignLock(cache[K], r))
            => /\ cache'[K] = cache[K]
               /\ pc[r] = "gets" => pc'[r] = "done"

\* C26: _cache never replaces a lock placeholder written by a different
\* operation: on a differently-tagged lock the write is abandoned, and a
\* compare-and-swap that comes after a writer installed its lock stores
\* nothing.
C26_NeverReplacesForeignLock == [][C26_Step]_vars

\* One get_multi abandoned its write on a foreign lock, another lost its
\* compare-and-swap to a lock installed after its gets.
C26_Witness ==
    /\ \E r \in Readers : pc[r] = "done" /\ hist[r].outcome = "abandoned"
    /\ \E r \in Readers : pc[r] = "done" /\ hist[r].outcome = "lost to a lock"

\* The steps of writer w: the first sets its lock placeholder and touches
\* nothing else, the backing write comes second, the last deletes the cache
\* entry and returns, or raises what the backing write raised.
C27_Step ==
    /\ \A w \in Writers :
          /\ (pc[w] = "idle" /\ pc'[w] # "idle")
                => /\ pc'[w] = "locked"
                   /\ ValueOf(cache'[K]) = LockValue(w)
                   /\ store' = store
          /\ (pc'[w] \in {"written", "raised"} /\ pc[w] # pc'[w])
                => /\ pc[w] = "locked"
                   /\ cache' = cache
          /\ (pc'[w] \in Returned /\ pc[w] \notin Returned)
                => /\ pc[w] \in {"written", "raised"}
                   /\ pc'[w] = (IF pc[w] = "raised" THEN "failed" ELSE "done")
                   /\ cache'[K] = NoItem
                   /\ store' = store
    /\ store' # store => \E w \in Writers : pc[w] = "locked" /\ pc'[w] = "written"

\* C27: a non-transactional put_multi or delete_multi sets its lock
\* placeholder before the backing write starts and deletes the cache entry
\* after the backing write ended, whether it returned or raised; what the
\* backing write raised leaves the call.
C27_LockWriteDelete == [][C27_Step]_vars

\* One call returned after its write, another raised what its backing write
\* raised; the cache entry is gone.
C27_Witness ==
    /\ \E w \in Writers : pc[w] = "failed"
    /\ \E w \in Writers : pc[w] = "done"
    /\ cache[K] = NoItem

\* The gets of a _cache call number at most two more than the deletes that
\* hit the key since its first gets.
C30_Iterations ==
    \A r \in Readers : hist[r].gets <= 2 + (Deletes - hist[r].deletesBefore)

\* C30: every _cache call, and so every get_multi, returns: an iteration
\* returns or adds the placeholder and retries, a retry needs a delete of
\* the key in between, and without one the call returns within two
\* iterations.
C30_CacheTerminates ==
    /\ [] C30_Iterations
    /\ \A r \in Readers : (pc[r] \in {"miss", "gets", "add", "cas"}) ~> (pc[r] = "done")

\* A _cache call that a concurrent delete sent into a third iteration has
\* returned.
C30_Witness ==
    \E r \in Readers : pc[r] = "done" /\ hist[r].gets >= 3
====
